---- MODULE Spec2Model ----
(***************************************************************************)
(* Frame scheduler of HelloTriangle/main.cpp: the control thread running   *)
(* run() -> mainLoop() -> drawFrame() -> recreateSwapChain(), together     *)
(* with the device queues, the presentation engine and the window system   *)
(* it synchronises with through fences, semaphores and GLFW events.        *)
(***************************************************************************)
EXTENDS Integers, FiniteSets, Sequences, TLC

\* ------------------------------------------------------------------------
\* Program constants
\* ------------------------------------------------------------------------
WIDTH == 800
HEIGHT == 600
MAX_FRAMES_IN_FLIGHT == 2

\* ------------------------------------------------------------------------
\* Bounds of the model
\* ------------------------------------------------------------------------
\* number of drawFrame calls explored
MaxFrames == 3

Slots == 0 .. (MAX_FRAMES_IN_FLIGHT - 1)

VK_SUCCESS == "VK_SUCCESS"
VK_SUBOPTIMAL_KHR == "VK_SUBOPTIMAL_KHR"
VK_ERROR_OUT_OF_DATE_KHR == "VK_ERROR_OUT_OF_DATE_KHR"
VK_ERROR_SURFACE_LOST_KHR == "VK_ERROR_SURFACE_LOST_KHR"
VK_ERROR_OUT_OF_HOST_MEMORY == "VK_ERROR_OUT_OF_HOST_MEMORY"

\* what vkAcquireNextImageKHR and vkQueuePresentKHR may return
SwapchainResults ==
    {VK_SUCCESS, VK_SUBOPTIMAL_KHR, VK_ERROR_OUT_OF_DATE_KHR, VK_ERROR_SURFACE_LOST_KHR}
\* what the other device calls may return
CallResults == {VK_SUCCESS, VK_ERROR_OUT_OF_HOST_MEMORY}

\* framebuffer sizes the window system can report: the created size, a
\* minimized window, and a window dragged to no height
Extents == { <<WIDTH, HEIGHT>>, <<0, 0>>, <<WIDTH, 0>> }

\* surface capabilities (minImageCount, maxImageCount) the device reports
SurfaceCapabilities ==
    { [minImageCount |-> 2, maxImageCount |-> 0] }

\* record of one drawFrame call: the slot and swapchain generation it started
\* with, whether the call before it was abandoned on a stale acquire, and what
\* it has done so far
NoIteration ==
    [ slot |-> 0, generation |-> 0, afterStale |-> FALSE, acquire |-> "none",
      recorded |-> FALSE, submit |-> "none", submitted |-> FALSE, present |-> "none",
      resized |-> FALSE,
      recreates |-> 0, returned |-> FALSE ]

VARIABLES
    pc,                         \* position of the control thread
    error,                      \* what() of the exception in flight, or "none"
    currentFrame,
    framebufferResized,
    result,                     \* drawFrame's local VkResult
    imageIndex,                 \* drawFrame's local image index
    size,                       \* recreateSwapChain's locals width, height
    caller,                     \* call site recreateSwapChain returns to
    swapChain,                  \* generation, image count and extent of the live swapchain
    imageState,                 \* owner of every image of the live swapchain
    commandBuffers,
    uniformBuffers,
    inFlightFences,
    imageAvailableSemaphores,
    renderFinishedSemaphores,
    graphicsQueue,              \* submissions not yet completed
    presentQueue,               \* presentation requests not yet executed
    window,                     \* framebuffer size of the window
    events,                     \* events queued by the window system
    windowShouldClose,
    frames,                     \* drawFrame calls so far
    submits,                    \* successful vkQueueSubmit calls so far
    presents,                   \* vkQueuePresentKHR calls so far
    iter,                       \* what the current (or last) drawFrame call did
    sem,                        \* per slot, the signal and wait operations executed
    calls,                      \* the functions run so far that create or destroy objects
    exitCode,                   \* what main returned, or NotExited
    stderr,                     \* lines main wrote to std::cerr
    support,                    \* what the surface or the instance reported to a query
    choice                      \* what the code chose from it

vars ==
    << pc, error, currentFrame, framebufferResized, result, imageIndex, size, caller,
       swapChain, imageState, commandBuffers, uniformBuffers, inFlightFences,
       imageAvailableSemaphores, renderFinishedSemaphores, graphicsQueue, presentQueue,
       window, events, windowShouldClose, frames, submits, presents, iter, sem,
       calls, exitCode, stderr, support, choice >>

ctlVars ==
    << pc, error, currentFrame, framebufferResized, result, imageIndex, size, caller >>
swapVars == << swapChain, imageState >>
slotVars == << commandBuffers, uniformBuffers >>
syncVars == << inFlightFences, imageAvailableSemaphores, renderFinishedSemaphores >>
queueVars == << graphicsQueue, presentQueue >>
envVars == << window, events, windowShouldClose >>
histVars == << frames, submits, presents, iter, sem >>
mainVars == << exitCode, stderr >>
pureVars == << support, choice >>

\* ------------------------------------------------------------------------
\* Pure helpers
\* ------------------------------------------------------------------------
\* an image count that is never reduced to the maximum
ImageCount_NoClamp(capabilities) == capabilities.minImageCount + 1

\* createSwapChain: minImageCount + 1, clamped to maxImageCount when there is one
ImageCount(capabilities) ==
    LET imageCount == capabilities.minImageCount + 1
    IN  IF capabilities.maxImageCount > 0 /\ imageCount > capabilities.maxImageCount
        THEN capabilities.maxImageCount
        ELSE imageCount

\* an advance that leaves out the increment
NextFrame_NoIncrement(f) == f % MAX_FRAMES_IN_FLIGHT

NextFrame(f) == (f + 1) % MAX_FRAMES_IN_FLIGHT

\* a VkSubmitInfo that waits on the image-available semaphore of the other slot
SubmitInfo_WaitsOtherSlot(k) ==
    [ waitSemaphore |-> (k + 1) % MAX_FRAMES_IN_FLIGHT, commandBuffer |-> k,
      signalSemaphore |-> k, fence |-> k ]

\* the VkSubmitInfo drawFrame fills in for slot k
SubmitInfo(k) ==
    [ waitSemaphore |-> k, commandBuffer |-> k, signalSemaphore |-> k, fence |-> k ]

\* a VkPresentInfoKHR that names the first image whatever was acquired
PresentInfo_FirstImage(k, image) ==
    [ waitSemaphore |-> k, image |-> 0, swapchain |-> swapChain.generation ]

\* the VkPresentInfoKHR drawFrame fills in for slot k
PresentInfo(k, image) ==
    [ waitSemaphore |-> k, image |-> image, swapchain |-> swapChain.generation ]

\* the commands recordCommandBuffer records between vkBeginCommandBuffer and
\* vkEndCommandBuffer
drawCommands ==
    << "vkCmdBeginRenderPass", "vkCmdBindPipeline", "vkCmdSetViewport", "vkCmdSetScissor",
       "vkCmdBindVertexBuffers", "vkCmdBindIndexBuffer", "vkCmdBindDescriptorSets",
       "vkCmdDrawIndexed", "vkCmdEndRenderPass" >>

DrawSequence_BindsFirstSet(image) ==
    [ framebuffer |-> image, generation |-> swapChain.generation,
      descriptorSet |-> 0, commands |-> drawCommands ]

\* the draw sequence recordCommandBuffer writes: the render pass begins on
\* swapChainFramebuffers[imageIndex] and binds descriptorSets[currentFrame]
DrawSequence(image) ==
    [ framebuffer |-> image, generation |-> swapChain.generation,
      descriptorSet |-> currentFrame, commands |-> drawCommands ]

ZeroArea(s) == s[1] = 0 \/ s[2] = 0

\* a loop condition that tests for both dimensions being zero
Minimized_Both(width, height) == width = 0 /\ height = 0

\* recreateSwapChain: while (width == 0 || height == 0)
Minimized(width, height) == width = 0 \/ height = 0

\* a test that lets an out-of-date acquire fall through to the recording
AcquireOutcome_StaleProceeds(r) ==
    IF r # VK_SUCCESS /\ r # VK_SUBOPTIMAL_KHR /\ r # VK_ERROR_OUT_OF_DATE_KHR THEN "throw"
    ELSE "record"

\* a test that recreates on a suboptimal acquire as on an out-of-date one
AcquireOutcome_SuboptimalRecreates(r) ==
    IF r = VK_ERROR_OUT_OF_DATE_KHR \/ r = VK_SUBOPTIMAL_KHR THEN "recreate"
    ELSE IF r # VK_SUCCESS THEN "throw"
    ELSE "record"

\* drawFrame: the test of the result of vkAcquireNextImageKHR
AcquireOutcome(r) ==
    IF r = VK_ERROR_OUT_OF_DATE_KHR THEN "recreate"
    ELSE IF r # VK_SUCCESS /\ r # VK_SUBOPTIMAL_KHR THEN "throw"
    ELSE "record"

\* a test that leaves out framebufferResized
PresentOutcome_IgnoresResize(r, resized) ==
    IF r = VK_ERROR_OUT_OF_DATE_KHR \/ r = VK_SUBOPTIMAL_KHR THEN "recreate"
    ELSE IF r # VK_SUCCESS THEN "throw"
    ELSE "advance"

\* drawFrame: the test of the result of vkQueuePresentKHR
PresentOutcome(r, resized) ==
    IF r = VK_ERROR_OUT_OF_DATE_KHR \/ r = VK_SUBOPTIMAL_KHR \/ resized THEN "recreate"
    ELSE IF r # VK_SUCCESS THEN "throw"
    ELSE "advance"

\* a drawFrame that returns right after every recreateSwapChain
AdvanceAfter_Never(site) == FALSE

\* drawFrame after recreateSwapChain: the call after vkAcquireNextImageKHR is
\* followed by return, the call after vkQueuePresentKHR by the advance
AdvanceAfter(site) == site = "present"

\* ------------------------------------------------------------------------
\* The calls that create and destroy objects
\* ------------------------------------------------------------------------
\* Every function of the setup, the recreation and the teardown is the
\* sequence of the calls it makes that can fail or that create or destroy an
\* object.  A call is "tested" when the code compares its result with success
\* and throws what, "ignored" when the result is dropped, "void" when the call
\* returns nothing.  Objects are <<kind, swapchain generation, index>>.
EXIT_SUCCESS == 0
EXIT_FAILURE == 1
\* main has not returned
NotExited == -1

\* debug build: NDEBUG is not defined
enableValidationLayers == TRUE

Object(kind) == <<kind, 0, 0>>

Tested(call, op, object, what) ==
    [ call |-> call, op |-> op, object |-> object, result |-> "tested", what |-> what ]

Ignored(call, op, object) ==
    [ call |-> call, op |-> op, object |-> object, result |-> "ignored", what |-> "" ]

Void(call, op, object) ==
    [ call |-> call, op |-> op, object |-> object, result |-> "void", what |-> "" ]

RECURSIVE Concat(_)
Concat(ss) == IF ss = << >> THEN << >> ELSE Head(ss) \o Concat(Tail(ss))

initWindowCalls ==
    << Ignored("glfwInit", "create", Object("glfw")),
       Ignored("glfwCreateWindow", "create", Object("window")) >>

createInstanceCalls ==
    << Tested("vkCreateInstance", "create", Object("instance"),
              "failed to create instance!") >>

setupDebugMessengerCalls ==
    IF ~enableValidationLayers THEN << >>
    ELSE << Tested("CreateDebugUtilsMessengerEXT", "create", Object("debugMessenger"),
                   "failed to set up debug messenger!") >>

createSurfaceCalls ==
    << Tested("glfwCreateWindowSurface", "create", Object("surface"),
              "failed to create window surface!") >>

createLogicalDeviceCalls ==
    << Tested("vkCreateDevice", "create", Object("device"),
              "failed to create logical device!") >>

createSwapChainCalls(generation) ==
    << Tested("vkCreateSwapchainKHR", "create", <<"swapchain", generation, 0>>,
              "failed to create swap chain!") >>

createImageViewsCalls(generation, images) ==
    [ i \in 1 .. images |->
        Tested("vkCreateImageView", "create", <<"imageView", generation, i - 1>>,
               "failed to create image views!") ]

createRenderPassCalls ==
    << Tested("vkCreateRenderPass", "create", Object("renderPass"),
              "failed to create render pass!") >>

createDescriptorSetLayoutCalls ==
    << Tested("vkCreateDescriptorSetLayout", "create", Object("descriptorSetLayout"),
              "failed to create descriptor set layout!") >>

createGraphicsPipelineCalls ==
    << Tested("vkCreateShaderModule", "create", <<"shaderModule", 0, 0>>,
              "failed to create shader module!"),
       Tested("vkCreateShaderModule", "create", <<"shaderModule", 0, 1>>,
              "failed to create shader module!"),
       Tested("vkCreatePipelineLayout", "create", Object("pipelineLayout"),
              "failed to create pipeline layout!"),
       Tested("vkCreateGraphicsPipelines", "create", Object("graphicsPipeline"),
              "failed to create graphics pipeline!"),
       Void("vkDestroyShaderModule", "destroy", <<"shaderModule", 0, 1>>),
       Void("vkDestroyShaderModule", "destroy", <<"shaderModule", 0, 0>>) >>

createFramebuffersCalls(generation, images) ==
    [ i \in 1 .. images |->
        Tested("vkCreateFramebuffer", "create", <<"framebuffer", generation, i - 1>>,
               "failed to create framebuffer!") ]

createCommandPoolCalls ==
    << Tested("vkCreateCommandPool", "create", Object("commandPool"),
              "failed to create command pool!") >>

createBufferCalls(buffer, bufferMemory) ==
    << Tested("vkCreateBuffer", "create", buffer, "failed to create buffer!"),
       Tested("findMemoryType", "none", buffer, "failed to find suitable memory type!"),
       Tested("vkAllocateMemory", "create", bufferMemory,
              "failed to allocate vertex buffer memory!"),
       Ignored("vkBindBufferMemory", "none", buffer) >>

createImageCalls(image, imageMemory) ==
    << Tested("vkCreateImage", "create", image, "failed to create image!"),
       Tested("findMemoryType", "none", image, "failed to find suitable memory type!"),
       Tested("vkAllocateMemory", "create", imageMemory,
              "failed to allocate image memory!"),
       Ignored("vkBindImageMemory", "none", image) >>

beginSingleTimeCommandsCalls(commandBuffer) ==
    << Ignored("vkAllocateCommandBuffers", "create", commandBuffer),
       Ignored("vkBeginCommandBuffer", "none", commandBuffer) >>

endSingleTimeCommandsCalls(commandBuffer) ==
    << Ignored("vkEndCommandBuffer", "none", commandBuffer),
       Ignored("vkQueueSubmit", "none", commandBuffer),
       Ignored("vkQueueWaitIdle", "none", commandBuffer),
       Void("vkFreeCommandBuffers", "destroy", commandBuffer) >>

\* copyBuffer, copyBufferToImage, transitionImageLayout: one command buffer
\* that is begun, filled, submitted and freed
singleTimeCommandsCalls(commandBuffer) ==
    beginSingleTimeCommandsCalls(commandBuffer) \o endSingleTimeCommandsCalls(commandBuffer)

createTextureImageCalls ==
    << Tested("stbi_load", "none", Object("pixels"), "failed to load texture image!") >>
    \o createBufferCalls(<<"stagingBuffer", 0, 0>>, <<"stagingBufferMemory", 0, 0>>)
    \o << Ignored("vkMapMemory", "none", <<"stagingBufferMemory", 0, 0>>) >>
    \o createImageCalls(Object("textureImage"), Object("textureImageMemory"))
    \o singleTimeCommandsCalls(<<"singleTimeCommands", 0, 0>>)
    \o singleTimeCommandsCalls(<<"singleTimeCommands", 0, 1>>)
    \o singleTimeCommandsCalls(<<"singleTimeCommands", 0, 2>>)
    \o << Void("vkDestroyBuffer", "destroy", <<"stagingBuffer", 0, 0>>),
          Void("vkFreeMemory", "destroy", <<"stagingBufferMemory", 0, 0>>) >>

\* createVertexBuffer (staging 1, commands 3) and createIndexBuffer (staging
\* 2, commands 4): staging buffer, device buffer, copy, staging freed
createStagedBufferCalls(buffer, bufferMemory, staging, commands) ==
    createBufferCalls(<<"stagingBuffer", 0, staging>>, <<"stagingBufferMemory", 0, staging>>)
    \o << Ignored("vkMapMemory", "none", <<"stagingBufferMemory", 0, staging>>) >>
    \o createBufferCalls(buffer, bufferMemory)
    \o singleTimeCommandsCalls(<<"singleTimeCommands", 0, commands>>)
    \o << Void("vkDestroyBuffer", "destroy", <<"stagingBuffer", 0, staging>>),
          Void("vkFreeMemory", "destroy", <<"stagingBufferMemory", 0, staging>>) >>

createVertexBufferCalls ==
    createStagedBufferCalls(Object("vertexBuffer"), Object("vertexBufferMemory"), 1, 3)

createIndexBufferCalls ==
    createStagedBufferCalls(Object("indexBuffer"), Object("indexBufferMemory"), 2, 4)

createUniformBuffersCalls ==
    Concat([ i \in 1 .. MAX_FRAMES_IN_FLIGHT |->
               createBufferCalls(<<"uniformBuffer", 0, i - 1>>,
                                 <<"uniformBufferMemory", 0, i - 1>>)
               \o << Ignored("vkMapMemory", "none", <<"uniformBufferMemory", 0, i - 1>>) >> ])

createDescriptorPoolCalls ==
    << Tested("vkCreateDescriptorPool", "create", Object("descriptorPool"),
              "failed to create descriptor pool!") >>

createDescriptorSetsCalls ==
    << Tested("vkAllocateDescriptorSets", "create", Object("descriptorSets"),
              "failed to allocate descriptor sets!") >>

createCommandBufferCalls ==
    << Tested("vkAllocateCommandBuffers", "create", Object("commandBuffers"),
              "failed to allocate command buffers!") >>

createSyncObjectsCalls ==
    Concat([ i \in 1 .. MAX_FRAMES_IN_FLIGHT |->
               << Tested("vkCreateSemaphore", "create",
                         <<"imageAvailableSemaphore", 0, i - 1>>,
                         "failed to create semaphores!"),
                  Tested("vkCreateSemaphore", "create",
                         <<"renderFinishedSemaphore", 0, i - 1>>,
                         "failed to create semaphores!"),
                  Tested("vkCreateFence", "create", <<"inFlightFence", 0, i - 1>>,
                         "failed to create fence!") >> ])

\* an initVulkan that creates the framebuffers before the render pass
initVulkanCalls_FramebuffersEarly(images) ==
    createInstanceCalls \o setupDebugMessengerCalls \o createSurfaceCalls
    \o createLogicalDeviceCalls \o createSwapChainCalls(1)
    \o createImageViewsCalls(1, images) \o createFramebuffersCalls(1, images)
    \o createRenderPassCalls
    \o createDescriptorSetLayoutCalls \o createGraphicsPipelineCalls
    \o createCommandPoolCalls
    \o createTextureImageCalls \o createVertexBufferCalls \o createIndexBufferCalls
    \o createUniformBuffersCalls \o createDescriptorPoolCalls
    \o createDescriptorSetsCalls \o createCommandBufferCalls \o createSyncObjectsCalls

\* initVulkan, for the first swapchain generation
initVulkanCalls(images) ==
    createInstanceCalls \o setupDebugMessengerCalls \o createSurfaceCalls
    \o createLogicalDeviceCalls \o createSwapChainCalls(1)
    \o createImageViewsCalls(1, images) \o createRenderPassCalls
    \o createDescriptorSetLayoutCalls \o createGraphicsPipelineCalls
    \o createFramebuffersCalls(1, images) \o createCommandPoolCalls
    \o createTextureImageCalls \o createVertexBufferCalls \o createIndexBufferCalls
    \o createUniformBuffersCalls \o createDescriptorPoolCalls
    \o createDescriptorSetsCalls \o createCommandBufferCalls \o createSyncObjectsCalls

\* a cleanupSwapChain that destroys the swapchain before what was made from it
cleanupSwapChainCalls_SwapchainFirst(generation, images) ==
    << Void("vkDestroySwapchainKHR", "destroy", <<"swapchain", generation, 0>>) >>
    \o [ i \in 1 .. images |->
           Void("vkDestroyImageView", "destroy", <<"imageView", generation, i - 1>>) ]
    \o [ i \in 1 .. images |->
           Void("vkDestroyFramebuffer", "destroy", <<"framebuffer", generation, i - 1>>) ]

\* a cleanupSwapChain that leaves the image views alone
cleanupSwapChainCalls_KeepsImageViews(generation, images) ==
    [ i \in 1 .. images |->
        Void("vkDestroyFramebuffer", "destroy", <<"framebuffer", generation, i - 1>>) ]
    \o << Void("vkDestroySwapchainKHR", "destroy", <<"swapchain", generation, 0>>) >>

cleanupSwapChainCalls(generation, images) ==
    [ i \in 1 .. images |->
        Void("vkDestroyFramebuffer", "destroy", <<"framebuffer", generation, i - 1>>) ]
    \o [ i \in 1 .. images |->
           Void("vkDestroyImageView", "destroy", <<"imageView", generation, i - 1>>) ]
    \o << Void("vkDestroySwapchainKHR", "destroy", <<"swapchain", generation, 0>>) >>

\* a recreation that builds a render pass for the new swapchain as well
recreateCalls_WithRenderPass(generation, images) ==
    createSwapChainCalls(generation) \o createImageViewsCalls(generation, images)
    \o createRenderPassCalls \o createFramebuffersCalls(generation, images)

\* recreateSwapChain after cleanupSwapChain: the three creation functions
recreateCalls(generation, images) ==
    createSwapChainCalls(generation) \o createImageViewsCalls(generation, images)
    \o createFramebuffersCalls(generation, images)

\* a cleanup that does not free the memory of the texture image
cleanupCalls_LeaksTextureMemory(generation, images) ==
    cleanupSwapChainCalls(generation, images)
    \o << Void("vkDestroyImage", "destroy", Object("textureImage")),
          Void("vkDestroyPipeline", "destroy", Object("graphicsPipeline")),
          Void("vkDestroyPipelineLayout", "destroy", Object("pipelineLayout")),
          Void("vkDestroyRenderPass", "destroy", Object("renderPass")) >>
    \o Concat([ i \in 1 .. MAX_FRAMES_IN_FLIGHT |->
                  << Void("vkDestroyBuffer", "destroy", <<"uniformBuffer", 0, i - 1>>),
                     Void("vkFreeMemory", "destroy", <<"uniformBufferMemory", 0, i - 1>>) >> ])
    \o << Void("vkDestroyDescriptorPool", "destroy", Object("descriptorSets")),
          Void("vkDestroyDescriptorPool", "destroy", Object("descriptorPool")),
          Void("vkDestroyDescriptorSetLayout", "destroy", Object("descriptorSetLayout")),
          Void("vkDestroyBuffer", "destroy", Object("indexBuffer")),
          Void("vkFreeMemory", "destroy", Object("indexBufferMemory")),
          Void("vkDestroyBuffer", "destroy", Object("vertexBuffer")),
          Void("vkFreeMemory", "destroy", Object("vertexBufferMemory")) >>
    \o Concat([ i \in 1 .. MAX_FRAMES_IN_FLIGHT |->
                  << Void("vkDestroySemaphore", "destroy",
                          <<"renderFinishedSemaphore", 0, i - 1>>),
                     Void("vkDestroySemaphore", "destroy",
                          <<"imageAvailableSemaphore", 0, i - 1>>),
                     Void("vkDestroyFence", "destroy", <<"inFlightFence", 0, i - 1>>) >> ])
    \o << Void("vkDestroyCommandPool", "destroy", Object("commandBuffers")),
          Void("vkDestroyCommandPool", "destroy", Object("commandPool")),
          Void("vkDestroyDevice", "destroy", Object("device")) >>
    \o ( IF enableValidationLayers
         THEN << Void("DestroyDebugUtilsMessengerEXT", "destroy", Object("debugMessenger")) >>
         ELSE << >> )
    \o << Void("vkDestroySurfaceKHR", "destroy", Object("surface")),
          Void("vkDestroyInstance", "destroy", Object("instance")),
          Void("glfwDestroyWindow", "destroy", Object("window")),
          Void("glfwTerminate", "destroy", Object("glfw")) >>

\* a cleanup that destroys the window before the surface made for it
cleanupCalls_WindowBeforeSurface(generation, images) ==
    cleanupSwapChainCalls(generation, images)
    \o << Void("vkDestroyImage", "destroy", Object("textureImage")),
          Void("vkFreeMemory", "destroy", Object("textureImageMemory")),
          Void("vkDestroyPipeline", "destroy", Object("graphicsPipeline")),
          Void("vkDestroyPipelineLayout", "destroy", Object("pipelineLayout")),
          Void("vkDestroyRenderPass", "destroy", Object("renderPass")) >>
    \o Concat([ i \in 1 .. MAX_FRAMES_IN_FLIGHT |->
                  << Void("vkDestroyBuffer", "destroy", <<"uniformBuffer", 0, i - 1>>),
                     Void("vkFreeMemory", "destroy", <<"uniformBufferMemory", 0, i - 1>>) >> ])
    \o << Void("vkDestroyDescriptorPool", "destroy", Object("descriptorSets")),
          Void("vkDestroyDescriptorPool", "destroy", Object("descriptorPool")),
          Void("vkDestroyDescriptorSetLayout", "destroy", Object("descriptorSetLayout")),
          Void("vkDestroyBuffer", "destroy", Object("indexBuffer")),
          Void("vkFreeMemory", "destroy", Object("indexBufferMemory")),
          Void("vkDestroyBuffer", "destroy", Object("vertexBuffer")),
          Void("vkFreeMemory", "destroy", Object("vertexBufferMemory")) >>
    \o Concat([ i \in 1 .. MAX_FRAMES_IN_FLIGHT |->
                  << Void("vkDestroySemaphore", "destroy",
                          <<"renderFinishedSemaphore", 0, i - 1>>),
                     Void("vkDestroySemaphore", "destroy",
                          <<"imageAvailableSemaphore", 0, i - 1>>),
                     Void("vkDestroyFence", "destroy", <<"inFlightFence", 0, i - 1>>) >> ])
    \o << Void("vkDestroyCommandPool", "destroy", Object("commandBuffers")),
          Void("vkDestroyCommandPool", "destroy", Object("commandPool")),
          Void("vkDestroyDevice", "destroy", Object("device")) >>
    \o ( IF enableValidationLayers
         THEN << Void("DestroyDebugUtilsMessengerEXT", "destroy", Object("debugMessenger")) >>
         ELSE << >> )
    \o << Void("glfwDestroyWindow", "destroy", Object("window")),
          Void("vkDestroySurfaceKHR", "destroy", Object("surface")),
          Void("vkDestroyInstance", "destroy", Object("instance")),
          Void("glfwTerminate", "destroy", Object("glfw")) >>

\* cleanup
cleanupCalls(generation, images) ==
    cleanupSwapChainCalls(generation, images)
    \o << Void("vkDestroyImage", "destroy", Object("textureImage")),
          Void("vkFreeMemory", "destroy", Object("textureImageMemory")),
          Void("vkDestroyPipeline", "destroy", Object("graphicsPipeline")),
          Void("vkDestroyPipelineLayout", "destroy", Object("pipelineLayout")),
          Void("vkDestroyRenderPass", "destroy", Object("renderPass")) >>
    \o Concat([ i \in 1 .. MAX_FRAMES_IN_FLIGHT |->
                  << Void("vkDestroyBuffer", "destroy", <<"uniformBuffer", 0, i - 1>>),
                     Void("vkFreeMemory", "destroy", <<"uniformBufferMemory", 0, i - 1>>) >> ])
    \o << Void("vkDestroyDescriptorPool", "destroy", Object("descriptorSets")),
          Void("vkDestroyDescriptorPool", "destroy", Object("descriptorPool")),
          Void("vkDestroyDescriptorSetLayout", "destroy", Object("descriptorSetLayout")),
          Void("vkDestroyBuffer", "destroy", Object("indexBuffer")),
          Void("vkFreeMemory", "destroy", Object("indexBufferMemory")),
          Void("vkDestroyBuffer", "destroy", Object("vertexBuffer")),
          Void("vkFreeMemory", "destroy", Object("vertexBufferMemory")) >>
    \o Concat([ i \in 1 .. MAX_FRAMES_IN_FLIGHT |->
                  << Void("vkDestroySemaphore", "destroy",
                          <<"renderFinishedSemaphore", 0, i - 1>>),
                     Void("vkDestroySemaphore", "destroy",
                          <<"imageAvailableSemaphore", 0, i - 1>>),
                     Void("vkDestroyFence", "destroy", <<"inFlightFence", 0, i - 1>>) >> ])
    \o << Void("vkDestroyCommandPool", "destroy", Object("commandBuffers")),
          Void("vkDestroyCommandPool", "destroy", Object("commandPool")),
          Void("vkDestroyDevice", "destroy", Object("device")) >>
    \o ( IF enableValidationLayers
         THEN << Void("DestroyDebugUtilsMessengerEXT", "destroy", Object("debugMessenger")) >>
         ELSE << >> )
    \o << Void("vkDestroySurfaceKHR", "destroy", Object("surface")),
          Void("vkDestroyInstance", "destroy", Object("instance")),
          Void("glfwDestroyWindow", "destroy", Object("window")),
          Void("glfwTerminate", "destroy", Object("glfw")) >>

\* vkDeviceWaitIdle: its result is dropped
deviceWaitIdleCalls ==
    << Ignored("vkDeviceWaitIdle", "wait", Object("device")) >>

\* an entry of the variable calls: function fn ran for the swapchain of this
\* generation and image count, and its call number failed (0: none) failed
Called(fn, generation, images, failed) ==
    [ fn |-> fn, generation |-> generation, images |-> images, failed |-> failed ]

\* the calls function e.fn makes
CallsOf(e) ==
    CASE e.fn = "setup" -> initWindowCalls \o initVulkanCalls(e.images)
      [] e.fn = "vkDeviceWaitIdle" -> deviceWaitIdleCalls
      [] e.fn = "cleanupSwapChain" -> cleanupSwapChainCalls(e.generation, e.images)
      [] e.fn = "recreate" -> recreateCalls(e.generation, e.images)
      [] e.fn = "cleanup" -> cleanupCalls(e.generation, e.images)

\* the calls of cs that return a result
Fallible(cs) == { i \in DOMAIN cs : cs[i].result # "void" }

\* the calls of cs that succeeded when call number failed failed: a tested
\* failure ends the function, a dropped one is followed by the next call
Succeeded(cs, failed) ==
    IF failed = 0 THEN cs
    ELSE IF cs[failed].result = "tested" THEN SubSeq(cs, 1, failed - 1)
    ELSE SubSeq(cs, 1, failed - 1) \o SubSeq(cs, failed + 1, Len(cs))

HasEffect(c) == c.op # "none"

\* what a sequence of successful calls creates, destroys and waits for
Effects(cs) ==
    LET made == SelectSeq(cs, HasEffect)
    IN  [ i \in 1 .. Len(made) |-> [ op |-> made[i].op, object |-> made[i].object ] ]

\* a failed call of function e was one whose result the code drops
Dropped(e) == e.failed # 0 /\ CallsOf(e)[e.failed].result = "ignored"

\* glfwPollEvents / glfwWaitEvents run the callbacks of the queued events
Deliver ==
    /\ events' = {}
    /\ windowShouldClose' = (windowShouldClose \/ "close" \in events)

\* a callback that does not record the resize
framebufferResizeCallback_Ignores(flag) == flag

\* framebufferResizeCallback
framebufferResizeCallback(flag) == flag \/ "resize" \in events

Throw(what) ==
    /\ pc' = "fatal"
    /\ error' = what

Bump(k, op) == sem' = [sem EXCEPT ![k][op] = @ + 1]

\* ------------------------------------------------------------------------
\* Initial state: the application object before run()
\* ------------------------------------------------------------------------
\* the members of the application object as their initializers leave them
Constructed ==
    /\ pc = "start"
    /\ error = "none"
    /\ currentFrame = 0
    /\ framebufferResized = FALSE
    /\ result = VK_SUCCESS
    /\ imageIndex = 0
    /\ size = <<0, 0>>
    /\ caller = "none"
    /\ swapChain = [live |-> FALSE, generation |-> 0, images |-> 0, extent |-> <<0, 0>>]
    /\ imageState = [i \in {} |-> "free"]
    /\ commandBuffers = [k \in Slots |-> << >>]
    /\ uniformBuffers = [k \in Slots |-> 0]
    /\ inFlightFences = [k \in Slots |-> FALSE]
    /\ imageAvailableSemaphores = [k \in Slots |-> "unsignaled"]
    /\ renderFinishedSemaphores = [k \in Slots |-> 0]
    /\ graphicsQueue = {}
    /\ presentQueue = {}
    /\ window = <<WIDTH, HEIGHT>>
    /\ events = {}
    /\ windowShouldClose = FALSE
    /\ frames = 0
    /\ submits = 0
    /\ presents = 0
    /\ iter = NoIteration
    /\ sem = [k \in Slots |-> [signalIA |-> 0, waitIA |-> 0, signalRF |-> 0, waitRF |-> 0]]
    /\ calls = << >>
    /\ exitCode = NotExited
    /\ stderr = << >>

\* no query of the surface or of the instance is under study
NoQuery == [ kind |-> "none" ]
NoChoice == [ kind |-> "none" ]

Init ==
    /\ Constructed
    /\ support = NoQuery
    /\ choice = NoChoice

\* ------------------------------------------------------------------------
\* run(): initWindow, initVulkan
\* ------------------------------------------------------------------------
\* createSwapChain, createImageViews, createFramebuffers: the swapchain of the
\* next generation, built for the surface's current capabilities and extent
CreateSwapChain(capabilities) ==
    /\ swapChain' = [ live |-> TRUE, generation |-> swapChain.generation + 1,
                      images |-> ImageCount(capabilities), extent |-> window ]
    /\ imageState' = [i \in 0 .. (ImageCount(capabilities) - 1) |-> "free"]

\* createSyncObjects: fences are created signaled
createSyncObjects ==
    /\ inFlightFences' = [k \in Slots |-> TRUE]
    /\ imageAvailableSemaphores' = [k \in Slots |-> "unsignaled"]
    /\ renderFinishedSemaphores' = [k \in Slots |-> 0]

\* initWindow and initVulkan; at most one call of the setup fails.  After a
\* failed call whose result is dropped the setup goes on and mainLoop is
\* entered with an object that was not created, bound or mapped: what the
\* device does from there on is undefined ("undefined").
InitVulkan ==
    /\ pc = "start"
    /\ \E capabilities \in SurfaceCapabilities :
         LET e == Called("setup", 1, ImageCount(capabilities), 0)
         IN  \E failed \in {0} \cup Fallible(CallsOf(e)) :
               /\ calls' = << [e EXCEPT !.failed = failed] >>
               /\ IF failed # 0 /\ CallsOf(e)[failed].result = "tested"
                  THEN /\ Throw(CallsOf(e)[failed].what)
                       /\ UNCHANGED << swapVars, syncVars >>
                  ELSE /\ CreateSwapChain(capabilities)
                       /\ createSyncObjects
                       /\ pc' = IF failed # 0 THEN "undefined" ELSE "loop"
                       /\ error' = error
    /\ UNCHANGED << currentFrame, framebufferResized, result, imageIndex, size, caller,
                    slotVars, queueVars, envVars, histVars, exitCode, stderr >>
    /\ UNCHANGED pureVars

\* ------------------------------------------------------------------------
\* mainLoop()
\* ------------------------------------------------------------------------
\* one turn of the while loop up to the call of drawFrame
MainLoop ==
    /\ pc = "loop"
    /\ ~windowShouldClose
    /\ frames < MaxFrames
    /\ Deliver
    /\ framebufferResized' = framebufferResizeCallback(framebufferResized)
    /\ pc' = "wait"
    /\ frames' = frames + 1
    /\ iter' = [NoIteration EXCEPT
                  !.slot = currentFrame,
                  !.generation = swapChain.generation,
                  !.afterStale = (iter.acquire = VK_ERROR_OUT_OF_DATE_KHR /\ iter.returned)]
    /\ UNCHANGED << error, currentFrame, result, imageIndex, size, caller, swapVars,
                    slotVars, syncVars, queueVars, window, submits, presents, sem >>
    /\ UNCHANGED << calls, mainVars >>
    /\ UNCHANGED pureVars

MainLoopExit ==
    /\ pc = "loop"
    /\ windowShouldClose
    /\ pc' = "idle"
    /\ UNCHANGED << error, currentFrame, framebufferResized, result, imageIndex, size,
                    caller, swapVars, slotVars, syncVars, queueVars, envVars, histVars >>
    /\ UNCHANGED << calls, mainVars >>
    /\ UNCHANGED pureVars

\* the entry of calls for a vkDeviceWaitIdle
Barrier == Called("vkDeviceWaitIdle", swapChain.generation, swapChain.images, 0)

\* a mainLoop that goes on to cleanup without waiting for the device
MainLoopWaitIdle_NoWait ==
    /\ pc = "idle"
    /\ pc' = "cleanup"
    /\ UNCHANGED << error, currentFrame, framebufferResized, result, imageIndex, size,
                    caller, swapVars, slotVars, syncVars, queueVars, envVars, histVars >>
    /\ calls' = Append(calls, Barrier)
    /\ UNCHANGED mainVars
    /\ UNCHANGED pureVars

\* vkDeviceWaitIdle at the end of mainLoop
MainLoopWaitIdle ==
    /\ pc = "idle"
    /\ graphicsQueue = {}
    /\ presentQueue = {}
    /\ pc' = "cleanup"
    /\ UNCHANGED << error, currentFrame, framebufferResized, result, imageIndex, size,
                    caller, swapVars, slotVars, syncVars, queueVars, envVars, histVars >>
    /\ calls' = Append(calls, Barrier)
    /\ UNCHANGED mainVars
    /\ UNCHANGED pureVars

\* ------------------------------------------------------------------------
\* drawFrame()
\* ------------------------------------------------------------------------
\* vkWaitForFences with a timeout of 0: returns without waiting
WaitForFences_NoWait ==
    /\ pc = "wait"
    /\ pc' = "acquire"
    /\ UNCHANGED << error, currentFrame, framebufferResized, result, imageIndex, size,
                    caller, swapVars, slotVars, syncVars, queueVars, envVars, histVars >>
    /\ UNCHANGED << calls, mainVars >>
    /\ UNCHANGED pureVars

\* a drawFrame that resets the fence right after the wait, before the acquire
WaitForFences_ThenResets ==
    /\ pc = "wait"
    /\ inFlightFences[currentFrame]
    /\ inFlightFences' = [inFlightFences EXCEPT ![currentFrame] = FALSE]
    /\ pc' = "acquire"
    /\ UNCHANGED << error, currentFrame, framebufferResized, result, imageIndex, size,
                    caller, swapVars, slotVars, imageAvailableSemaphores,
                    renderFinishedSemaphores, queueVars, envVars, histVars >>
    /\ UNCHANGED << calls, mainVars >>
    /\ UNCHANGED pureVars

\* vkWaitForFences(inFlightFences[currentFrame], UINT64_MAX)
WaitForFences ==
    /\ pc = "wait"
    /\ inFlightFences[currentFrame]
    /\ pc' = "acquire"
    /\ UNCHANGED << error, currentFrame, framebufferResized, result, imageIndex, size,
                    caller, swapVars, slotVars, syncVars, queueVars, envVars, histVars >>
    /\ UNCHANGED << calls, mainVars >>
    /\ UNCHANGED pureVars

\* the image vkAcquireNextImageKHR hands out: one the application and the
\* presentation engine do not hold (images are interchangeable: the first)
FirstFree(i) ==
    /\ imageState[i] = "free"
    /\ \A j \in DOMAIN imageState : j < i => imageState[j] # "free"

\* recreateSwapChain is called from site c
CallRecreateSwapChain(c) ==
    /\ pc' = "recreate"
    /\ caller' = c

\* drawFrame returns to mainLoop; its locals go out of scope
Return(advance) ==
    /\ pc' = "loop"
    /\ currentFrame' = IF advance THEN NextFrame(currentFrame) ELSE currentFrame
    /\ result' = VK_SUCCESS
    /\ imageIndex' = 0

\* a drawFrame that clears framebufferResized before the recreation at the acquire
AcquireNextImage_ClearsResized ==
    /\ pc = "acquire"
    /\ \E r \in SwapchainResults :
         /\ result' = r
         /\ CASE AcquireOutcome(r) = "recreate" ->
                   /\ CallRecreateSwapChain("acquire")
                   /\ framebufferResized' = FALSE
                   /\ iter' = [iter EXCEPT !.acquire = r, !.recreates = @ + 1]
                   /\ UNCHANGED << error, imageIndex, imageState, imageAvailableSemaphores >>
              [] AcquireOutcome(r) = "record" ->
                   /\ \E i \in DOMAIN imageState :
                        /\ FirstFree(i)
                        /\ imageIndex' = i
                        /\ imageState' = [imageState EXCEPT ![i] = "acquired"]
                   /\ imageAvailableSemaphores' =
                        [imageAvailableSemaphores EXCEPT ![currentFrame] = "pending"]
                   /\ pc' = "record"
                   /\ iter' = [iter EXCEPT !.acquire = r]
                   /\ UNCHANGED << error, caller, framebufferResized >>
              [] OTHER ->
                   /\ Throw("failed to acquire swap chain image!")
                   /\ iter' = [iter EXCEPT !.acquire = r]
                   /\ UNCHANGED << imageIndex, imageState, imageAvailableSemaphores,
                                   caller, framebufferResized >>
    /\ UNCHANGED << currentFrame, size, swapChain, slotVars,
                    inFlightFences, renderFinishedSemaphores, queueVars, envVars,
                    frames, submits, presents, sem >>
    /\ UNCHANGED << calls, mainVars >>
    /\ UNCHANGED pureVars

\* vkAcquireNextImageKHR and the test of its result
AcquireNextImage ==
    /\ pc = "acquire"
    /\ \E r \in SwapchainResults :
         /\ result' = r
         /\ CASE AcquireOutcome(r) = "recreate" ->
                   /\ CallRecreateSwapChain("acquire")
                   /\ iter' = [iter EXCEPT !.acquire = r, !.recreates = @ + 1]
                   /\ UNCHANGED << error, imageIndex, imageState, imageAvailableSemaphores >>
              [] AcquireOutcome(r) = "record" ->
                   /\ \E i \in DOMAIN imageState :
                        /\ FirstFree(i)
                        /\ imageIndex' = i
                        /\ imageState' = [imageState EXCEPT ![i] = "acquired"]
                   /\ imageAvailableSemaphores' =
                        [imageAvailableSemaphores EXCEPT ![currentFrame] = "pending"]
                   /\ pc' = "record"
                   /\ iter' = [iter EXCEPT !.acquire = r]
                   /\ UNCHANGED << error, caller >>
              [] OTHER ->
                   /\ Throw("failed to acquire swap chain image!")
                   /\ iter' = [iter EXCEPT !.acquire = r]
                   /\ UNCHANGED << imageIndex, imageState, imageAvailableSemaphores,
                                   caller >>
    /\ UNCHANGED << currentFrame, framebufferResized, size, swapChain, slotVars,
                    inFlightFences, renderFinishedSemaphores, queueVars, envVars,
                    frames, submits, presents, sem >>
    /\ UNCHANGED << calls, mainVars >>
    /\ UNCHANGED pureVars

ResetCommandBuffer_Keeps(commands) == commands

\* vkResetCommandBuffer
ResetCommandBuffer(commands) == << >>

\* updateUniformBuffer, vkResetFences, vkResetCommandBuffer, recordCommandBuffer
Record ==
    /\ pc = "record"
    /\ uniformBuffers' = [uniformBuffers EXCEPT ![currentFrame] = frames]
    /\ inFlightFences' = [inFlightFences EXCEPT ![currentFrame] = FALSE]
    /\ \E begin \in CallResults, end \in CallResults :
         CASE begin # VK_SUCCESS ->
                /\ commandBuffers' =
                     [commandBuffers EXCEPT ![currentFrame] = ResetCommandBuffer(@)]
                /\ Throw("failed to begin recording command buffer!")
                /\ iter' = iter
           [] begin = VK_SUCCESS /\ end # VK_SUCCESS ->
                /\ commandBuffers' =
                     [commandBuffers EXCEPT ![currentFrame] = ResetCommandBuffer(@)]
                /\ Throw("failed to record command buffer!")
                /\ iter' = iter
           [] OTHER ->
                /\ commandBuffers' =
                     [commandBuffers EXCEPT
                        ![currentFrame] = Append(ResetCommandBuffer(@), DrawSequence(imageIndex))]
                /\ pc' = "submit"
                /\ error' = error
                /\ iter' = [iter EXCEPT !.recorded = TRUE]
    /\ UNCHANGED << currentFrame, framebufferResized, result, imageIndex, size, caller,
                    swapVars, imageAvailableSemaphores, renderFinishedSemaphores,
                    queueVars, envVars, frames, submits, presents, sem >>
    /\ UNCHANGED << calls, mainVars >>
    /\ UNCHANGED pureVars

\* vkQueueSubmit(graphicsQueue, submitInfo, inFlightFences[currentFrame])
QueueSubmit ==
    /\ pc = "submit"
    /\ \E r \in CallResults :
         IF r = VK_SUCCESS
         THEN /\ graphicsQueue' = graphicsQueue \cup
                   { [id |-> frames, info |-> SubmitInfo(currentFrame), state |-> "queued"] }
              /\ submits' = submits + 1
              /\ iter' = [iter EXCEPT !.submit = r, !.submitted = TRUE]
              /\ pc' = "present"
              /\ error' = error
         ELSE /\ Throw("failed to submit draw command buffer!")
              /\ iter' = [iter EXCEPT !.submit = r]
              /\ UNCHANGED << graphicsQueue, submits >>
    /\ UNCHANGED << currentFrame, framebufferResized, result, imageIndex, size, caller,
                    swapVars, slotVars, syncVars, presentQueue, envVars, frames,
                    presents, sem >>
    /\ UNCHANGED << calls, mainVars >>
    /\ UNCHANGED pureVars

\* vkQueuePresentKHR and the test of its result
QueuePresent ==
    /\ pc = "present"
    /\ presentQueue' = presentQueue \cup
         { [id |-> frames, info |-> PresentInfo(currentFrame, imageIndex)] }
    /\ imageState' = [imageState EXCEPT ![imageIndex] = "queued"]
    /\ presents' = presents + 1
    /\ \E r \in SwapchainResults :
         IF PresentOutcome(r, framebufferResized) = "recreate"
         THEN /\ framebufferResized' = FALSE
              /\ CallRecreateSwapChain("present")
              /\ result' = r
              /\ iter' = [iter EXCEPT !.present = r, !.resized = framebufferResized,
                                      !.recreates = @ + 1]
              /\ UNCHANGED << error, currentFrame, imageIndex >>
         ELSE IF PresentOutcome(r, framebufferResized) = "throw"
         THEN /\ Throw("failed to present swap chain image!")
              /\ result' = r
              /\ iter' = [iter EXCEPT !.present = r, !.resized = framebufferResized]
              /\ UNCHANGED << framebufferResized, currentFrame, imageIndex, caller >>
         ELSE /\ Return(TRUE)
              /\ iter' = [iter EXCEPT !.present = r, !.resized = framebufferResized,
                                      !.returned = TRUE]
              /\ UNCHANGED << error, framebufferResized, caller >>
    /\ UNCHANGED << size, swapChain, slotVars, syncVars, graphicsQueue, envVars,
                    frames, submits, sem >>
    /\ UNCHANGED << calls, mainVars >>
    /\ UNCHANGED pureVars

\* ------------------------------------------------------------------------
\* recreateSwapChain()
\* ------------------------------------------------------------------------
\* glfwGetFramebufferSize before the loop, and the first test of the loop
RecreateSwapChain ==
    /\ pc = "recreate"
    /\ size' = window
    /\ pc' = IF Minimized(window[1], window[2]) THEN "minimized" ELSE "quiesce"
    /\ UNCHANGED << error, currentFrame, framebufferResized, result, imageIndex, caller,
                    swapVars, slotVars, syncVars, queueVars, envVars, histVars >>
    /\ UNCHANGED << calls, mainVars >>
    /\ UNCHANGED pureVars

\* glfwGetFramebufferSize inside the loop
GetFramebufferSize ==
    /\ pc = "minimized"
    /\ size' = window
    /\ pc' = "waitevents"
    /\ UNCHANGED << error, currentFrame, framebufferResized, result, imageIndex, caller,
                    swapVars, slotVars, syncVars, queueVars, envVars, histVars >>
    /\ UNCHANGED << calls, mainVars >>
    /\ UNCHANGED pureVars

\* glfwWaitEvents inside the loop, and the next test of the loop
WaitEvents ==
    /\ pc = "waitevents"
    /\ events # {}
    /\ Deliver
    /\ framebufferResized' = framebufferResizeCallback(framebufferResized)
    /\ pc' = IF Minimized(size[1], size[2]) THEN "minimized" ELSE "quiesce"
    /\ UNCHANGED << error, currentFrame, result, imageIndex, size, caller, swapVars,
                    slotVars, syncVars, queueVars, window, histVars >>
    /\ UNCHANGED << calls, mainVars >>
    /\ UNCHANGED pureVars

\* vkDeviceWaitIdle
DeviceWaitIdle ==
    /\ pc = "quiesce"
    /\ graphicsQueue = {}
    /\ presentQueue = {}
    /\ pc' = "cleanupSwapChain"
    /\ UNCHANGED << error, currentFrame, framebufferResized, result, imageIndex, size,
                    caller, swapVars, slotVars, syncVars, queueVars, envVars, histVars >>
    /\ calls' = Append(calls, Barrier)
    /\ UNCHANGED mainVars
    /\ UNCHANGED pureVars

\* cleanupSwapChain
CleanupSwapChain ==
    /\ pc = "cleanupSwapChain"
    /\ swapChain' = [swapChain EXCEPT !.live = FALSE]
    /\ imageState' = [i \in {} |-> "free"]
    /\ pc' = "createSwapChain"
    /\ UNCHANGED << error, currentFrame, framebufferResized, result, imageIndex, size,
                    caller, slotVars, syncVars, queueVars, envVars, histVars >>
    /\ calls' = Append(calls, Called("cleanupSwapChain", swapChain.generation, swapChain.images, 0))
    /\ UNCHANGED mainVars
    /\ UNCHANGED pureVars

\* createSwapChain, createImageViews, createFramebuffers, and the return to
\* drawFrame, which returns (acquire) or advances and returns (present)
RecreateSwapChainCreate ==
    /\ pc = "createSwapChain"
    /\ \E capabilities \in SurfaceCapabilities :
         LET e == Called("recreate", swapChain.generation + 1, ImageCount(capabilities), 0)
         IN  \E failed \in {0} \cup Fallible(CallsOf(e)) :
               /\ calls' = Append(calls, [e EXCEPT !.failed = failed])
               /\ IF failed = 0
                  THEN /\ CreateSwapChain(capabilities)
                       /\ Return(AdvanceAfter(caller))
                       /\ size' = <<0, 0>>
                       /\ caller' = "none"
                       /\ iter' = [iter EXCEPT !.returned = TRUE]
                       /\ error' = error
                  ELSE /\ Throw(CallsOf(e)[failed].what)
                       /\ UNCHANGED << swapVars, currentFrame, result, imageIndex, size,
                                       caller, iter >>
    /\ UNCHANGED << framebufferResized, slotVars, syncVars, queueVars, envVars, frames,
                    submits, presents, sem, mainVars >>
    /\ UNCHANGED pureVars

\* ------------------------------------------------------------------------
\* run(): cleanup
\* ------------------------------------------------------------------------
Cleanup ==
    /\ pc = "cleanup"
    /\ swapChain' = [swapChain EXCEPT !.live = FALSE]
    /\ imageState' = [i \in {} |-> "free"]
    /\ pc' = "exit"
    /\ UNCHANGED << error, currentFrame, framebufferResized, result, imageIndex, size,
                    caller, slotVars, syncVars, queueVars, envVars, histVars >>
    /\ calls' = Append(calls, Called("cleanup", swapChain.generation, swapChain.images, 0))
    /\ UNCHANGED mainVars
    /\ UNCHANGED pureVars

\* ------------------------------------------------------------------------
\* main()
\* ------------------------------------------------------------------------
\* the handler of main: the exception that left run() is reported
MainCatch_ReturnsSuccess ==
    /\ pc = "fatal"
    /\ exitCode = NotExited
    /\ stderr' = Append(stderr, error)
    /\ exitCode' = EXIT_SUCCESS
    /\ UNCHANGED << ctlVars, swapVars, slotVars, syncVars, queueVars, envVars, histVars,
                    calls >>
    /\ UNCHANGED pureVars

MainCatch ==
    /\ pc = "fatal"
    /\ exitCode = NotExited
    /\ stderr' = Append(stderr, error)
    /\ exitCode' = EXIT_FAILURE
    /\ UNCHANGED << ctlVars, swapVars, slotVars, syncVars, queueVars, envVars, histVars,
                    calls >>
    /\ UNCHANGED pureVars

\* run() has returned
MainReturn ==
    /\ pc = "exit"
    /\ exitCode = NotExited
    /\ exitCode' = EXIT_SUCCESS
    /\ UNCHANGED << ctlVars, swapVars, slotVars, syncVars, queueVars, envVars, histVars,
                    calls, stderr >>
    /\ UNCHANGED pureVars

\* ------------------------------------------------------------------------
\* The device: graphics queue, presentation queue, presentation engine
\* ------------------------------------------------------------------------
\* the device works from the end of initVulkan to the end of the process
Running == pc \notin {"start", "fatal", "exit", "undefined"}

\* the presentation engine hands the acquired image over: the semaphore passed
\* to vkAcquireNextImageKHR is signaled
ImageAvailable(k) ==
    /\ Running
    /\ imageAvailableSemaphores[k] = "pending"
    /\ imageAvailableSemaphores' = [imageAvailableSemaphores EXCEPT ![k] = "signaled"]
    /\ Bump(k, "signalIA")
    /\ UNCHANGED << ctlVars, swapVars, slotVars, inFlightFences, renderFinishedSemaphores,
                    queueVars, envVars, frames, submits, presents, iter >>
    /\ UNCHANGED << calls, mainVars >>
    /\ UNCHANGED pureVars

\* the wait of a submission on its wait semaphore is satisfied
Execute(s) ==
    /\ Running
    /\ s \in graphicsQueue
    /\ s.state = "queued"
    /\ imageAvailableSemaphores[s.info.waitSemaphore] = "signaled"
    /\ imageAvailableSemaphores' =
         [imageAvailableSemaphores EXCEPT ![s.info.waitSemaphore] = "unsignaled"]
    /\ graphicsQueue' = (graphicsQueue \ {s}) \cup {[s EXCEPT !.state = "executing"]}
    /\ Bump(s.info.waitSemaphore, "waitIA")
    /\ UNCHANGED << ctlVars, swapVars, slotVars, inFlightFences, renderFinishedSemaphores,
                    presentQueue, envVars, frames, submits, presents, iter >>
    /\ UNCHANGED << calls, mainVars >>
    /\ UNCHANGED pureVars

\* a submission completes: its signal semaphore and its fence are signaled
Complete(s) ==
    /\ Running
    /\ s \in graphicsQueue
    /\ s.state = "executing"
    /\ graphicsQueue' = graphicsQueue \ {s}
    /\ renderFinishedSemaphores' =
         [renderFinishedSemaphores EXCEPT ![s.info.signalSemaphore] = @ + 1]
    /\ inFlightFences' = [inFlightFences EXCEPT ![s.info.fence] = TRUE]
    /\ Bump(s.info.signalSemaphore, "signalRF")
    /\ UNCHANGED << ctlVars, swapVars, slotVars, imageAvailableSemaphores, presentQueue,
                    envVars, frames, submits, presents, iter >>
    /\ UNCHANGED << calls, mainVars >>
    /\ UNCHANGED pureVars

\* the wait of a presentation request is satisfied and its image is shown
\* and handed back to the swapchain
Present(p) ==
    /\ Running
    /\ p \in presentQueue
    /\ renderFinishedSemaphores[p.info.waitSemaphore] > 0
    /\ renderFinishedSemaphores' =
         [renderFinishedSemaphores EXCEPT ![p.info.waitSemaphore] = @ - 1]
    /\ presentQueue' = presentQueue \ {p}
    /\ imageState' =
         IF swapChain.live /\ p.info.swapchain = swapChain.generation
         THEN [imageState EXCEPT ![p.info.image] = "free"]
         ELSE imageState
    /\ Bump(p.info.waitSemaphore, "waitRF")
    /\ UNCHANGED << ctlVars, swapChain, slotVars, inFlightFences, imageAvailableSemaphores,
                    graphicsQueue, envVars, frames, submits, presents, iter >>
    /\ UNCHANGED << calls, mainVars >>
    /\ UNCHANGED pureVars

\* ------------------------------------------------------------------------
\* The window system
\* ------------------------------------------------------------------------
\* The program observes the window only in glfwPollEvents, glfwWaitEvents,
\* glfwGetFramebufferSize and the surface query of createSwapChain; a change
\* of the window is taken at the last position before such a call, where it
\* has the same effect as at any earlier moment since the previous one.

\* the user resizes, minimizes or restores the window
WindowResize ==
    /\ pc \in {"loop", "recreate", "minimized", "waitevents", "createSwapChain"}
    /\ \E extent \in Extents :
         /\ extent # window
         /\ window' = extent
    /\ events' = events \cup {"resize"}
    /\ UNCHANGED << ctlVars, swapVars, slotVars, syncVars, queueVars, windowShouldClose,
                    histVars >>
    /\ UNCHANGED << calls, mainVars >>
    /\ UNCHANGED pureVars

\* the user closes the window
WindowClose ==
    /\ pc \in {"loop", "waitevents"}
    /\ ~windowShouldClose
    /\ "close" \notin events
    /\ events' = events \cup {"close"}
    /\ UNCHANGED << ctlVars, swapVars, slotVars, syncVars, queueVars, window,
                    windowShouldClose, histVars >>
    /\ UNCHANGED << calls, mainVars >>
    /\ UNCHANGED pureVars

\* ------------------------------------------------------------------------
\* Specification
\* ------------------------------------------------------------------------
Next ==
    \/ InitVulkan
    \/ MainLoop
    \/ MainLoopExit
    \/ MainLoopWaitIdle
    \/ WaitForFences
    \/ AcquireNextImage
    \/ Record
    \/ QueueSubmit
    \/ QueuePresent
    \/ RecreateSwapChain
    \/ GetFramebufferSize
    \/ WaitEvents
    \/ DeviceWaitIdle
    \/ CleanupSwapChain
    \/ RecreateSwapChainCreate
    \/ Cleanup
    \/ MainCatch
    \/ MainReturn
    \/ \E k \in Slots : ImageAvailable(k)
    \/ \E s \in graphicsQueue : Execute(s)
    \/ \E s \in graphicsQueue : Complete(s)
    \/ \E p \in presentQueue : Present(p)
    \/ WindowResize
    \/ WindowClose

Spec == Init /\ [][Next]_vars

\* ------------------------------------------------------------------------
\* Properties
\* ------------------------------------------------------------------------
Pending(k) == { s \in graphicsQueue : s.info.commandBuffer = k }

Unsignaled == { k \in Slots : ~inFlightFences[k] }

\* C1: at most MAX_FRAMES_IN_FLIGHT slots have an unsignaled in-flight fence,
\* at most MAX_FRAMES_IN_FLIGHT submissions are outstanding, and every slot has
\* at most one submission that is submitted and not yet completed.
C1_BoundedFramesInFlight ==
    /\ Cardinality(Unsignaled) <= MAX_FRAMES_IN_FLIGHT
    /\ Cardinality(graphicsQueue) <= MAX_FRAMES_IN_FLIGHT
    /\ \A k \in Slots : Cardinality(Pending(k)) <= 1

\* both slots in flight at once, after a recreation
C1_Witness ==
    /\ Cardinality(graphicsQueue) = MAX_FRAMES_IN_FLIGHT
    /\ Unsignaled = Slots
    /\ swapChain.generation > 1

\* C2: while drawFrame rewrites uniform buffer k, re-records command buffer k
\* and resubmits with the semaphores and the fence of slot k, no earlier
\* submission of slot k is still queued or executing; the fence it waited on
\* was signaled.
C2_NoReuseWhileExecuting ==
    /\ pc \in {"acquire", "record", "submit"} =>
         \A s \in graphicsQueue :
            /\ s.info.commandBuffer # currentFrame
            /\ s.info.fence # currentFrame
            /\ s.info.waitSemaphore # currentFrame
            /\ s.info.signalSemaphore # currentFrame
    /\ pc \in {"acquire", "record"} => inFlightFences[currentFrame]

\* the slot is reused (it was written by an earlier frame) while the other
\* slot's submission is still on the queue
C2_Witness ==
    /\ pc = "record"
    /\ uniformBuffers[currentFrame] # 0
    /\ graphicsQueue # {}

Executing(k) == { s \in graphicsQueue : s.info.signalSemaphore = k /\ s.state = "executing" }

\* C3: in every slot k the image-available semaphore is signaled before the
\* submission consumes it, the submission consumes it before the
\* render-finished semaphore is signaled, and the presentation waits on the
\* render-finished signal: every render-finished signal of slot k was preceded
\* by its own consumed image-available signal.
C3_SignalOrder ==
    \A k \in Slots :
        /\ sem[k].waitRF <= sem[k].signalRF
        /\ sem[k].signalRF + Cardinality(Executing(k)) = sem[k].waitIA
        /\ sem[k].waitIA <= sem[k].signalIA
        /\ \A s \in graphicsQueue : s.info.commandBuffer = k =>
              s.info.waitSemaphore = k /\ s.info.signalSemaphore = k

\* a slot whose whole chain has run twice
C3_Witness ==
    \E k \in Slots :
        /\ sem[k].signalIA = 2
        /\ sem[k].waitIA = 2
        /\ sem[k].signalRF = 2
        /\ sem[k].waitRF = 2

InRecreate ==
    pc \in {"recreate", "minimized", "waitevents", "quiesce", "cleanupSwapChain",
            "createSwapChain"}

AfterLoop == pc \in {"idle", "cleanup", "exit"}

\* C4: a drawFrame call whose acquire reports out of date records nothing,
\* submits nothing and presents nothing, calls recreateSwapChain once and
\* returns without retrying; the call after it starts with the same slot, whose
\* fence is still signaled, and records against the new swapchain.
C4_StaleAcquireAbandons ==
    /\ iter.acquire = VK_ERROR_OUT_OF_DATE_KHR =>
         /\ ~iter.recorded
         /\ ~iter.submitted
         /\ iter.present = "none"
         /\ iter.recreates = 1
         /\ InRecreate \/ pc \in {"loop", "fatal"} \/ AfterLoop
         /\ (iter.returned /\ pc = "loop") =>
              /\ currentFrame = iter.slot
              /\ inFlightFences[currentFrame]
              /\ imageAvailableSemaphores[currentFrame] = "unsignaled"
              /\ swapChain.live
              /\ swapChain.generation = iter.generation + 1
    /\ iter.afterStale =>
         /\ pc = "wait" => ENABLED WaitForFences
         /\ pc \in {"submit", "present"} =>
              commandBuffers[currentFrame][1].generation = swapChain.generation

\* after an abandoned call, the next call has submitted and presented
C4_Witness ==
    /\ iter.afterStale
    /\ iter.submitted
    /\ iter.present = VK_SUCCESS
    /\ iter.returned

\* C5: at the present step an out-of-date result, a suboptimal result or a
\* pending framebufferResized each lead to one recreateSwapChain in that
\* iteration; a success with no pending resize leads to none and the call
\* returns with the slot advanced.
C5_PresentRecreates ==
    iter.present # "none" =>
        /\ (iter.present \in {VK_ERROR_OUT_OF_DATE_KHR, VK_SUBOPTIMAL_KHR} \/ iter.resized)
              => iter.recreates = 1 /\ (InRecreate \/ iter.returned \/ pc = "fatal")
        /\ (iter.present = VK_SUCCESS /\ ~iter.resized)
              => /\ iter.recreates = 0
                 /\ iter.returned
                 /\ currentFrame = NextFrame(iter.slot)
                 /\ swapChain.generation = iter.generation

\* a successful present with a pending resize has recreated the swapchain
C5_Witness ==
    /\ iter.present = VK_SUCCESS
    /\ iter.resized
    /\ iter.recreates = 1
    /\ iter.returned
    /\ swapChain.generation = iter.generation + 1

\* C6 as stated: a suboptimal acquire goes through record, submit and present
\* and recreateSwapChain runs after the present of that iteration.
C6_SuboptimalAcquireRecreates ==
    (iter.acquire = VK_SUBOPTIMAL_KHR /\ iter.returned) =>
        /\ iter.recorded
        /\ iter.submitted
        /\ iter.present # "none"
        /\ iter.recreates = 1

\* C6 amended: a suboptimal acquire goes through record, submit and present
\* with the acquired image; the acquire sets no flag, and recreateSwapChain
\* runs after the present exactly when the present reports out of date or
\* suboptimal or framebufferResized is set.
C6_SuboptimalAcquireProceeds ==
    iter.acquire = VK_SUBOPTIMAL_KHR =>
        /\ pc \in {"submit", "present"} =>
              commandBuffers[currentFrame][1].framebuffer = imageIndex
        /\ \A p \in presentQueue : p.id = frames =>
              p.info.image = commandBuffers[iter.slot][1].framebuffer
        /\ iter.returned =>
              /\ iter.recorded
              /\ iter.submitted
              /\ iter.present # "none"
              /\ iter.recreates =
                   IF iter.present \in {VK_ERROR_OUT_OF_DATE_KHR, VK_SUBOPTIMAL_KHR}
                      \/ iter.resized
                   THEN 1 ELSE 0

\* a suboptimal acquire whose iteration ended without a recreation
C6_Witness ==
    /\ iter.acquire = VK_SUBOPTIMAL_KHR
    /\ iter.returned
    /\ iter.submitted
    /\ iter.present = VK_SUCCESS
    /\ iter.recreates = 0

\* C7 as stated: every drawFrame call that returns has advanced currentFrame.
C7_EveryReturnAdvances ==
    iter.returned => currentFrame = NextFrame(iter.slot)

\* C7 amended: a drawFrame call that reached the present step and returns has
\* advanced currentFrame, also when it recreated the swapchain; a call
\* abandoned on an out-of-date acquire returns with currentFrame unchanged.
C7_ReturnAfterPresentAdvances ==
    iter.returned =>
        currentFrame = IF iter.present # "none" THEN NextFrame(iter.slot) ELSE iter.slot

\* a call that recreated the swapchain at the present step and advanced
C7_Witness ==
    /\ iter.returned
    /\ iter.present # "none"
    /\ iter.recreates = 1
    /\ currentFrame = NextFrame(iter.slot)

\* C8: as long as no recreation has happened, after M drawFrame calls there
\* have been M submits and M presents and currentFrame is M mod
\* MAX_FRAMES_IN_FLIGHT, each call using slot (M - 1) mod MAX_FRAMES_IN_FLIGHT;
\* currentFrame is always a slot index.
C8_FrameIndexRoundTrip ==
    /\ currentFrame \in Slots
    /\ (swapChain.generation = 1 /\ (pc = "loop" \/ AfterLoop)) =>
         /\ submits = frames
         /\ presents = frames
         /\ currentFrame = frames % MAX_FRAMES_IN_FLIGHT
    /\ (swapChain.generation = 1 /\ pc \in {"wait", "acquire", "record", "submit", "present"}) =>
         /\ currentFrame = (frames - 1) % MAX_FRAMES_IN_FLIGHT
         /\ submits = IF pc = "present" THEN frames ELSE frames - 1
         /\ presents = frames - 1

\* three undisturbed iterations: slots 0, 1, 0 and back at slot 1
C8_Witness ==
    /\ pc = "loop"
    /\ swapChain.generation = 1
    /\ frames = 3
    /\ submits = 3
    /\ presents = 3
    /\ currentFrame = 1

\* C9: a failed queue submit, and an acquire or present result other than
\* success, out of date or suboptimal, end the iteration in a fatal error,
\* without a recreation and without the loop going on.
C9_UnexpectedResultIsFatal ==
    /\ iter.submit \notin {"none", VK_SUCCESS} =>
         pc = "fatal" /\ error = "failed to submit draw command buffer!" /\ iter.recreates = 0
    /\ iter.acquire = VK_ERROR_SURFACE_LOST_KHR =>
         pc = "fatal" /\ error = "failed to acquire swap chain image!" /\ iter.recreates = 0
    /\ iter.present = VK_ERROR_SURFACE_LOST_KHR =>
         pc = "fatal" /\ error = "failed to present swap chain image!" /\ iter.recreates = 0

\* C10: recreateSwapChain goes on to the device barrier, the destruction and
\* the creation only with a framebuffer size it has read as non-zero in both
\* dimensions; entered with a zero width or height it waits for events, and
\* entered with a non-zero size it goes straight to the device barrier.
C10_StateInvariant ==
    pc \in {"quiesce", "cleanupSwapChain", "createSwapChain"} => ~ZeroArea(size)

C10_Step ==
    /\ (pc = "recreate" /\ pc' # pc) =>
          pc' = IF ZeroArea(window) THEN "minimized" ELSE "quiesce"
    /\ (pc = "minimized" /\ pc' # pc) => pc' = "waitevents"
    /\ (pc = "waitevents" /\ pc' # pc) =>
          /\ events # {}
          /\ pc' = IF ZeroArea(size) THEN "minimized" ELSE "quiesce"
    /\ (pc' = "quiesce" /\ pc # pc') => pc \in {"recreate", "waitevents"}

C10_DegenerateSurfaceBlocks == [](C10_StateInvariant) /\ [][C10_Step]_vars

\* a recreation called from the present step that waited for events (the
\* resize callback ran again after the flag was cleared) and then went on
C10_Witness ==
    /\ pc = "quiesce"
    /\ caller = "present"
    /\ framebufferResized
    /\ ~ZeroArea(size)

\* ------------------------------------------------------------------------
\* Creation and destruction of objects
\* ------------------------------------------------------------------------
\* everything created, destroyed and waited for so far, in call order
Trace ==
    Concat([ i \in DOMAIN calls |->
               Effects(Succeeded(CallsOf(calls[i]), calls[i].failed)) ])

\* what the last n functions recorded in calls created, destroyed and waited for
Recent(n) ==
    Concat([ i \in 1 .. n |->
               LET e == calls[Len(calls) - n + i]
               IN  Effects(Succeeded(CallsOf(e), e.failed)) ])

\* an operation without the index of its object
Step(c) == << c.op, c.object[1], c.object[2] >>

\* t with every run of equal neighbours shortened to one element
RECURSIVE Squeeze(_)
Squeeze(t) ==
    IF Len(t) < 2 THEN t
    ELSE IF t[1] = t[2] THEN Squeeze(Tail(t))
    ELSE << t[1] >> \o Squeeze(Tail(t))

Steps(t) == Squeeze([ i \in DOMAIN t |-> Step(t[i]) ])

IsPrefix(a, b) == Len(a) <= Len(b) /\ a = SubSeq(b, 1, Len(a))

\* submissions and presentation requests only use a live swapchain generation
C11_InUseIsLive ==
    /\ \A s \in graphicsQueue :
         /\ swapChain.live
         /\ commandBuffers[s.info.commandBuffer] # << >>
         /\ commandBuffers[s.info.commandBuffer][1].generation = swapChain.generation
    /\ \A p \in presentQueue :
         swapChain.live /\ p.info.swapchain = swapChain.generation
    /\ pc \in {"cleanupSwapChain", "cleanup"} => graphicsQueue = {} /\ presentQueue = {}

\* the barrier, the destruction of generation g and the creation of the next
RecreationSteps(g) ==
    << << "wait", "device", 0 >>,
       << "destroy", "framebuffer", g >>, << "destroy", "imageView", g >>,
       << "destroy", "swapchain", g >>,
       << "create", "swapchain", g + 1 >>, << "create", "imageView", g + 1 >>,
       << "create", "framebuffer", g + 1 >> >>

\* the function recorded last ran its calls, and followed the functions
\* before it, in that order (a failed creation ends the sequence early)
C11_Ordered ==
    LET last == calls[Len(calls)]
        g == last.generation
    IN  CASE last.fn = "cleanupSwapChain" ->
               /\ Len(calls) >= 2
               /\ Steps(Recent(2)) = SubSeq(RecreationSteps(g), 1, 4)
          [] last.fn = "recreate" ->
               /\ Len(calls) >= 3
               /\ LET steps == Steps(Recent(3))
                  IN  IF last.failed = 0 THEN steps = RecreationSteps(g - 1)
                      ELSE Len(steps) >= 4 /\ IsPrefix(steps, RecreationSteps(g - 1))
          [] last.fn = "cleanup" ->
               /\ Len(calls) >= 2
               /\ IsPrefix(SubSeq(RecreationSteps(g), 1, 4), Steps(Recent(2)))
          [] OTHER -> TRUE

\* C11: in every recreation vkDeviceWaitIdle completes before a framebuffer,
\* image view or swapchain is destroyed, so none is destroyed while a
\* submission or presentation request that uses it is outstanding; the old
\* objects are destroyed framebuffers first, then image views, then the
\* swapchain, and the new ones are created after that, swapchain first, then
\* image views, then framebuffers.
C11_RecreationOrder ==
    /\ C11_InUseIsLive
    /\ calls # << >> => C11_Ordered

\* a recreation called after the present of a frame it had submitted: that
\* frame used the old framebuffer, and the old objects are now destroyed
C11_Witness ==
    /\ pc = "createSwapChain"
    /\ caller = "present"
    /\ iter.submitted
    /\ ~swapChain.live
    /\ calls[Len(calls)].fn = "cleanupSwapChain"
    /\ calls[Len(calls) - 1].fn = "vkDeviceWaitIdle"

SwapchainKinds == {"swapchain", "imageView", "framebuffer"}

IsSwapchainObject(c) == c.object[1] \in SwapchainKinds

\* one operation c on the live objects r.live; ok becomes false when an object
\* is created while live, or destroyed while not live (never created, or
\* destroyed before)
Apply(c, r) ==
    CASE c.op = "create" ->
           [ ok |-> r.ok /\ c.object \notin r.live, live |-> r.live \cup {c.object} ]
      [] c.op = "destroy" ->
           [ ok |-> r.ok /\ c.object \in r.live, live |-> r.live \ {c.object} ]
      [] OTHER -> r

\* the operations t[lo], ..., t[hi] applied in order
RECURSIVE ReplayRange(_, _, _, _)
ReplayRange(t, lo, hi, r) ==
    IF lo > hi THEN r
    ELSE IF lo = hi THEN Apply(t[lo], r)
    ELSE LET mid == (lo + hi) \div 2
         IN  CHOOSE second \in { ReplayRange(t, mid + 1, hi, first) :
                                   first \in { ReplayRange(t, lo, mid, r) } } : TRUE

\* the objects that are live after the operations t[i], t[i + 1], ... on the
\* live objects live
Replay(t, i, live) == ReplayRange(t, i, Len(t), [ ok |-> TRUE, live |-> live ])

\* the swapchain of generation g with its image views and framebuffers
SwapchainObjects(g, images) ==
    { <<"swapchain", g, 0>> }
    \cup { <<"imageView", g, i>> : i \in 0 .. (images - 1) }
    \cup { <<"framebuffer", g, i>> : i \in 0 .. (images - 1) }

\* C12: whenever drawFrame has returned, after any number of recreations (two
\* in succession included), there is exactly one live swapchain, built for
\* the image count and the extent of the surface, with one live image view and
\* one live framebuffer per image; no swapchain, image view or framebuffer of
\* an earlier generation is left undestroyed and none was destroyed twice.
C12_OneLiveSwapchain ==
    pc = "loop" =>
      LET r == Replay(SelectSeq(Trace, IsSwapchainObject), 1, {})
      IN  /\ r.ok
          /\ r.live = SwapchainObjects(swapChain.generation, swapChain.images)
          /\ swapChain.live
          /\ swapChain.images \in { ImageCount(c) : c \in SurfaceCapabilities }
          /\ DOMAIN imageState = 0 .. (swapChain.images - 1)
          /\ swapChain.extent = window \/ "resize" \in events

\* two recreations in succession: one after a stale acquire, the next at the
\* present of the call after it, which had seen a resize
C12_Witness ==
    /\ pc = "loop"
    /\ frames = 2
    /\ swapChain.generation = 3
    /\ iter.afterStale
    /\ iter.resized
    /\ iter.returned

\* what recreateSwapChain is to leave alone: the objects of the pipeline, the
\* texture, the buffers, and the command buffers and sync objects of the slots
KeptObjects ==
    { Object(kind) :
        kind \in { "renderPass", "graphicsPipeline", "pipelineLayout", "descriptorSetLayout",
                   "commandBuffers", "descriptorSets", "textureImage", "textureImageMemory",
                   "vertexBuffer", "vertexBufferMemory", "indexBuffer",
                   "indexBufferMemory" } }
    \cup { << kind, 0, k >> :
             kind \in { "uniformBuffer", "uniformBufferMemory", "imageAvailableSemaphore",
                        "renderFinishedSemaphore", "inFlightFence" },
             k \in Slots }

IsKeptObject(c) == c.object \in KeptObjects

\* from the entry of recreateSwapChain to the return of the drawFrame call
\* that made it, every kept object is live and was created once, and
\* currentFrame is the slot the drawFrame call started with
C13_State ==
    /\ InRecreate => currentFrame = iter.slot
    /\ (pc = "createSwapChain" \/ (pc = "loop" /\ iter.returned /\ iter.recreates > 0)) =>
         LET t == SelectSeq(Trace, IsKeptObject)
         IN  /\ Replay(t, 1, {}) = [ ok |-> TRUE, live |-> KeptObjects ]
             /\ Len(t) = Cardinality(KeptObjects)
             /\ \A i \in DOMAIN calls :
                  calls[i].fn \in {"cleanupSwapChain", "recreate"} =>
                    \A j \in DOMAIN CallsOf(calls[i]) :
                      CallsOf(calls[i])[j].object[1] \in SwapchainKinds

\* the steps of recreateSwapChain leave the recorded command buffers and the
\* uniform buffers as they are, and currentFrame until drawFrame goes on
C13_Step ==
    InRecreate =>
      /\ UNCHANGED << commandBuffers, uniformBuffers >>
      /\ pc' \in {"recreate", "minimized", "waitevents", "quiesce", "cleanupSwapChain",
                  "createSwapChain", "fatal"} => UNCHANGED currentFrame

\* C13: recreateSwapChain replaces the swapchain, its image views and its
\* framebuffers and nothing else: render pass, pipeline, layouts, command
\* buffers, semaphores, fences, currentFrame and the vertex, index, uniform
\* and texture objects are the ones created by the setup, which creates them
\* once; none of them is destroyed before the teardown.
C13_RecreationKeepsTheRest == [](C13_State) /\ [][C13_Step]_vars

\* a recreation has returned to a drawFrame call that had submitted a frame
C13_Witness ==
    /\ pc = "loop"
    /\ iter.returned
    /\ iter.recreates = 1
    /\ iter.submitted
    /\ swapChain.generation = 2
    /\ currentFrame = NextFrame(iter.slot)

\* recreateSwapChain called from the present step starts with the flag
\* cleared, and a drawFrame call that reached the present step with the flag
\* set calls recreateSwapChain once
C14_State ==
    /\ (pc = "recreate" /\ caller = "present") => ~framebufferResized
    /\ iter.resized => iter.present # "none" /\ iter.recreates = 1

C14_Step ==
    /\ ("resize" \in events /\ events' = {}) => framebufferResized'
    /\ (framebufferResized /\ ~framebufferResized') =>
          pc = "present" /\ pc' = "recreate" /\ caller' = "present"
    /\ (pc = "present" /\ pc' # pc /\ framebufferResized) =>
          pc' = "recreate" /\ caller' = "present" /\ ~framebufferResized'

\* C14: a resize event that is delivered sets framebufferResized; the flag
\* stays set until a drawFrame call reaches the present step, which then calls
\* recreateSwapChain whatever vkQueuePresentKHR returned, success included,
\* after clearing the flag; nothing else clears it.
C14_ResizeIsObserved == [](C14_State) /\ [][C14_Step]_vars

\* the present succeeded and the recreation is called for the resize alone
C14_Witness ==
    /\ pc = "recreate"
    /\ caller = "present"
    /\ iter.resized
    /\ iter.present = VK_SUCCESS
    /\ iter.acquire = VK_SUCCESS
    /\ ~framebufferResized

C15_State ==
    /\ AfterLoop => windowShouldClose
    /\ pc \in {"cleanup", "exit"} => graphicsQueue = {} /\ presentQueue = {}
    /\ pc = "cleanup" => calls[Len(calls)].fn = "vkDeviceWaitIdle"
    /\ pc = "exit" =>
         /\ calls[Len(calls)].fn = "cleanup"
         /\ calls[Len(calls) - 1].fn = "vkDeviceWaitIdle"
         /\ \A i \in 1 .. (Len(calls) - 1) : calls[i].fn # "cleanup"

C15_Step ==
    /\ (pc = "loop" /\ pc' = "wait") => ~windowShouldClose
    /\ (pc = "loop" /\ pc' = "idle") => windowShouldClose
    /\ (pc' = "idle" /\ pc # "idle") => pc = "loop"
    /\ pc = "idle" => pc' \in {"idle", "cleanup"}
    /\ pc = "cleanup" => pc' \in {"cleanup", "exit"}
    /\ pc = "exit" => pc' = "exit"
    /\ AfterLoop => UNCHANGED << frames, submits, presents, iter >>

\* C15: mainLoop polls and calls drawFrame as long as the window is not to be
\* closed and leaves the loop only when it is; vkDeviceWaitIdle then returns
\* with no submission or presentation request outstanding before cleanup
\* destroys anything, and from the end of the loop on drawFrame is not called
\* again.
C15_SingleExit == [](C15_State) /\ [][C15_Step]_vars

\* the window was closed with frames submitted, and the teardown has run
C15_Witness ==
    /\ pc = "exit"
    /\ frames >= 2
    /\ submits = frames
    /\ windowShouldClose

Reverse(s) == [ i \in 1 .. Len(s) |-> s[Len(s) + 1 - i] ]

Objects(t) == [ i \in DOMAIN t |-> t[i].object ]

\* the objects created in t that are in live, in the order of their creation
CreatedOf(t, live) ==
    LET IsOwned(c) == c.op = "create" /\ c.object \in live
    IN  Objects(SelectSeq(t, IsOwned))

\* P(d, owned, left) for the objects d the function recorded last destroyed,
\* in the order of their destruction, the objects owned that were live when
\* it began, in the order of their creation, and the outcome left of
\* replaying every call up to its end
OfLastFunction(P(_, _, _)) ==
    \A t \in { Trace }, d \in { Objects(Recent(1)) } :
      \A before \in { SubSeq(t, 1, Len(t) - Len(d)) } :
        \A r \in { Replay(before, 1, {}) } :
          \A owned \in { CreatedOf(before, r.live) },
             left \in { ReplayRange(t, Len(before) + 1, Len(t), r) } :
            P(d, owned, left)

\* the place of the one object of this kind in the sequence of objects d
Place(d, kind) == CHOOSE i \in DOMAIN d : d[i][1] = kind

C16_Reversed(d, owned, left) ==
    /\ left = [ ok |-> TRUE, live |-> {} ]
    /\ d = Reverse(owned)

C16_AllDestroyed(d, owned, left) ==
    /\ left = [ ok |-> TRUE, live |-> {} ]
    /\ Len(d) = Len(owned)
    /\ { d[i] : i \in DOMAIN d } = { owned[i] : i \in DOMAIN owned }
    /\ { d[i] : i \in 1 .. (2 * swapChain.images + 1) } =
         SwapchainObjects(swapChain.generation, swapChain.images)
    /\ \A atDevice \in { Place(d, "device") }, atInstance \in { Place(d, "instance") },
          atSurface \in { Place(d, "surface") }, atWindow \in { Place(d, "window") } :
         /\ \A i \in DOMAIN d :
              d[i][1] \notin {"device", "debugMessenger", "surface", "instance", "window",
                              "glfw"} => i < atDevice
         /\ atDevice < atInstance
         /\ Place(d, "debugMessenger") < atInstance
         /\ atSurface < atInstance
         /\ atSurface < atWindow
         /\ atInstance < atWindow
         /\ Place(d, "glfw") = Len(d)

drawFrameErrors ==
    { "failed to acquire swap chain image!", "failed to begin recording command buffer!",
      "failed to record command buffer!", "failed to submit draw command buffer!",
      "failed to present swap chain image!" }

C17_State ==
    /\ pc = "fatal" <=> error # "none"
    /\ pc = "fatal" =>
         LET last == calls[Len(calls)]
         IN  IF last.failed # 0
             THEN /\ last.fn \in {"setup", "recreate"}
                  /\ CallsOf(last)[last.failed].result = "tested"
                  /\ CallsOf(last)[last.failed].what = error
             ELSE error \in drawFrameErrors
    /\ \A i \in DOMAIN calls : calls[i].failed # 0 => i = Len(calls)
    /\ exitCode = NotExited => stderr = << >>
    /\ exitCode = EXIT_FAILURE => pc = "fatal" /\ stderr = << error >>
    /\ exitCode = EXIT_SUCCESS => pc = "exit" /\ windowShouldClose /\ stderr = << >>
    /\ exitCode \in {NotExited, EXIT_SUCCESS, EXIT_FAILURE}
    /\ EXIT_FAILURE # 0 /\ EXIT_SUCCESS = 0

C17_Step ==
    /\ error' # error => pc # "fatal" /\ pc' = "fatal"
    /\ pc = "fatal" =>
         /\ exitCode = NotExited
         /\ exitCode' = EXIT_FAILURE
         /\ stderr' = << error >>
         /\ UNCHANGED << ctlVars, swapVars, slotVars, syncVars, queueVars, envVars,
                         histVars, calls >>
    /\ pc = "exit" => exitCode = NotExited /\ exitCode' = EXIT_SUCCESS
    /\ exitCode # NotExited => UNCHANGED vars

\* C17: an exception thrown by a setup step, by drawFrame or by the recreation
\* it calls is in flight from the very step that detected the failure and
\* carries that call's message; the only step that follows is main's handler,
\* which writes the message to std::cerr and returns EXIT_FAILURE: no function
\* that creates or destroys objects runs, no frame is drawn, nothing is torn
\* down. main returns EXIT_SUCCESS only after run() returned, which is after the
\* window was closed.
C17_FatalErrorEndsTheProcess == [](C17_State) /\ [][C17_Step]_vars

\* main reported a failed acquire that followed a submitted frame
C17_Witness ==
    /\ exitCode = EXIT_FAILURE
    /\ stderr = << "failed to acquire swap chain image!" >>
    /\ submits >= 1
    /\ graphicsQueue # {}

\* C18 as stated: a call of initWindow or initVulkan (helpers included) that
\* returns a failure raises the fatal error at once: the setup does not go on
\* to its next step and mainLoop is not entered.
C18_SetupFailureIsFatal ==
    (calls # << >> /\ calls[1].fn = "setup" /\ calls[1].failed # 0) =>
      /\ pc = "fatal"
      /\ CallsOf(calls[1])[calls[1].failed].result = "tested"
      /\ error = CallsOf(calls[1])[calls[1].failed].what
      /\ Len(calls) = 1

\* the one draw sequence recordCommandBuffer leaves in the buffer of slot k for
\* the image acquired
OneDraw(k, image) ==
    << [ framebuffer |-> image, generation |-> swapChain.generation, descriptorSet |-> k,
         commands |-> << "vkCmdBeginRenderPass", "vkCmdBindPipeline", "vkCmdSetViewport",
                         "vkCmdSetScissor", "vkCmdBindVertexBuffers",
                         "vkCmdBindIndexBuffer", "vkCmdBindDescriptorSets",
                         "vkCmdDrawIndexed", "vkCmdEndRenderPass" >> ] >>

C19_State ==
    /\ \A k \in Slots :
         /\ Len(commandBuffers[k]) <= 1
         /\ \A i \in DOMAIN commandBuffers[k] :
              /\ Len(commandBuffers[k][i].commands) = 9
              /\ Len(SelectSeq(commandBuffers[k][i].commands,
                               LAMBDA c : c = "vkCmdDrawIndexed")) = 1
    /\ pc \in {"submit", "present"} =>
         commandBuffers[currentFrame] = OneDraw(currentFrame, imageIndex)

C19_Step ==
    /\ (pc = "record" /\ pc' = "submit") =>
         commandBuffers'[currentFrame] = OneDraw(currentFrame, imageIndex)
    /\ pc = "record" =>
         \A k \in Slots \ {currentFrame} : commandBuffers'[k] = commandBuffers[k]
    /\ pc # "record" => UNCHANGED commandBuffers

\* C19: whatever the slot's command buffer held, after the record step it
\* holds exactly one draw sequence: the render pass begun on the framebuffer of
\* the image acquired, pipeline, viewport, scissor, vertex and index buffers and
\* the slot's descriptor set bound, one indexed draw, the render pass ended;
\* no buffer ever holds more than one sequence, and no other step, and no other
\* slot's recording, changes a buffer.
C19_RecordIsIdempotent == [](C19_State) /\ [][C19_Step]_vars

\* the slot was recorded, submitted and executed before, and is recorded again
\* for an image other than the one of its earlier sequence
C19_Witness ==
    /\ pc = "submit"
    /\ sem[currentFrame].signalRF >= 1
    /\ frames >= 3
    /\ commandBuffers[currentFrame] = OneDraw(currentFrame, imageIndex)
    /\ imageIndex # 0

\* the control thread is inside drawFrame or the recreation it called
InDrawFrame ==
    pc \in {"wait", "acquire", "record", "submit", "present", "recreate", "waitevents",
            "quiesce", "cleanupSwapChain", "createSwapChain"}

C20_State ==
    /\ InDrawFrame => iter.slot = currentFrame
    /\ \A s \in graphicsQueue :
         /\ s.info.waitSemaphore = s.info.commandBuffer
         /\ s.info.signalSemaphore = s.info.commandBuffer
         /\ s.info.fence = s.info.commandBuffer
         /\ \A p \in presentQueue : p.id = s.id => p.info.waitSemaphore = s.info.commandBuffer
    /\ \A k \in Slots :
         \A i \in DOMAIN commandBuffers[k] : commandBuffers[k][i].descriptorSet = k
    /\ pc \in {"submit", "present"} =>
         /\ uniformBuffers[currentFrame] = frames
         /\ commandBuffers[currentFrame] # << >>
    /\ pc = "submit" => ~inFlightFences[currentFrame]

C20_Step ==
    /\ (InDrawFrame /\ pc' # "loop") => currentFrame' = currentFrame
    /\ (pc = "wait" /\ pc' = "acquire") => inFlightFences[currentFrame]
    /\ (pc = "acquire" /\ pc' = "record") =>
         /\ imageAvailableSemaphores[currentFrame] = "unsignaled"
         /\ imageAvailableSemaphores'[currentFrame] = "pending"
         /\ \A k \in Slots \ {currentFrame} :
              imageAvailableSemaphores'[k] = imageAvailableSemaphores[k]
    /\ (pc = "record" /\ pc' # pc) =>
         /\ uniformBuffers'[currentFrame] = frames
         /\ ~inFlightFences'[currentFrame]
         /\ \A k \in Slots \ {currentFrame} :
              /\ uniformBuffers'[k] = uniformBuffers[k]
              /\ commandBuffers'[k] = commandBuffers[k]
              /\ inFlightFences'[k] = inFlightFences[k]
    /\ pc # "record" => UNCHANGED uniformBuffers
    /\ (pc = "submit" /\ pc' = "present") =>
         graphicsQueue' = graphicsQueue \cup
           { [ id |-> frames, state |-> "queued",
               info |-> [ waitSemaphore |-> currentFrame, commandBuffer |-> currentFrame,
                          signalSemaphore |-> currentFrame, fence |-> currentFrame ] ] }
    /\ (pc = "present" /\ pc' # pc) =>
         \A p \in presentQueue' \ presentQueue : p.info.waitSemaphore = currentFrame

\* C20: from its first step to its return a drawFrame call works on the one
\* slot currentFrame: it waits on and resets that slot's fence, passes that
\* slot's image-available semaphore to the acquire, writes that slot's uniform
\* buffer, records that slot's command buffer with that slot's descriptor set
\* bound, submits that command buffer waiting on that slot's image-available
\* semaphore and signaling that slot's render-finished semaphore and fence, and
\* presents waiting on that slot's render-finished semaphore; nothing of the
\* other slot is read or written by it.
C20_OneSlotPerIteration == [](C20_State) /\ [][C20_Step]_vars

\* the second slot's frame is being presented while the first slot's
\* submission is still in flight
C20_Witness ==
    /\ pc = "present"
    /\ currentFrame = 1
    /\ \E s \in graphicsQueue : s.info.commandBuffer = 0
    /\ \E s \in graphicsQueue : s.info.commandBuffer = 1 /\ s.id = frames
    /\ commandBuffers[0] # << >>
    /\ commandBuffers[1] # << >>
    /\ uniformBuffers[0] # uniformBuffers[1]

\* the submissions in the graphics queue that signal the fence of slot k
Signaling(k) == { s \in graphicsQueue : s.info.fence = k }

\* initVulkan has returned: the fences exist
SetupDone == calls # << >> /\ calls[1].failed = 0

C21_State ==
    /\ (pc = "loop" /\ frames = 0) => \A k \in Slots : inFlightFences[k]
    /\ SetupDone =>
         \A k \in Slots :
           ~inFlightFences[k] =>
             \/ Signaling(k) # {}
             \/ k = currentFrame /\ pc \in {"submit", "fatal"}
    /\ pc = "wait" => (inFlightFences[currentFrame] \/ Signaling(currentFrame) # {})
    /\ pc \in {"acquire", "record"} => inFlightFences[currentFrame]
    /\ caller = "acquire" => inFlightFences[currentFrame]
    /\ (pc = "loop" /\ iter.returned /\ iter.acquire = VK_ERROR_OUT_OF_DATE_KHR) =>
         inFlightFences[currentFrame]

C21_Step ==
    \A k \in Slots :
      (inFlightFences[k] /\ ~inFlightFences'[k]) =>
        /\ pc = "record"
        /\ k = currentFrame
        /\ iter.acquire \in {VK_SUCCESS, VK_SUBOPTIMAL_KHR}

\* C21: the fences are created signaled; a fence is reset only by the record
\* step of its own slot, which follows an acquire that handed out an image, and
\* from the submit on a submission that signals it is in the graphics queue
\* until it is signaled (between the reset and the submit only the throw of a
\* failed recording or submit intervenes, which ends the process).  A stale
\* acquire leaves the fence signaled, so a fence that drawFrame waits on is
\* signaled or has a submission outstanding that will signal it.
C21_FenceResetOnlyBeforeSubmit == [](C21_State) /\ [][C21_Step]_vars

\* the call before was abandoned on a stale acquire and this call has passed
\* its wait on the same slot, whose fence was not reset by the abandoned call
C21_Witness ==
    /\ pc = "acquire"
    /\ iter.afterStale
    /\ inFlightFences[currentFrame]
    /\ submits >= 1

\* ------------------------------------------------------------------------
\* Progress
\* ------------------------------------------------------------------------
\* a step of the control thread inside drawFrame
DrawFrameStep ==
    \/ WaitForFences
    \/ AcquireNextImage
    \/ Record
    \/ QueueSubmit
    \/ QueuePresent
    \/ RecreateSwapChain
    \/ GetFramebufferSize
    \/ WaitEvents
    \/ DeviceWaitIdle
    \/ CleanupSwapChain
    \/ RecreateSwapChainCreate

\* The control thread takes its next step when it can (every call it makes
\* returns when the condition it waits for holds, the acquire among them), and
\* the device executes and completes what was submitted to it and presents
\* what was queued for presentation.
LiveSpec ==
    /\ Spec
    /\ WF_vars(DrawFrameStep)
    /\ WF_vars(\E k \in Slots : ImageAvailable(k))
    /\ WF_vars(\E s \in graphicsQueue : Execute(s))
    /\ WF_vars(\E s \in graphicsQueue : Complete(s))
    /\ WF_vars(\E p \in presentQueue : Present(p))

\* recreateSwapChain is in its loop for a window without area
Waiting == pc \in {"minimized", "waitevents"}

\* from some moment on the surface has an area whenever a recreation is waiting
SurfaceComesBack == <>[](Waiting => ~ZeroArea(window))

\* C22 as stated: if the device completes what is submitted, the acquire
\* returns and the surface eventually has an area whenever a recreation is
\* waiting, every drawFrame call returns or throws.
C22_DrawFrameReturns ==
    SurfaceComesBack => (InDrawFrame ~> (pc \in {"loop", "fatal"}))

\* recreateSwapChain is running, called from site c of drawFrame
Recreating(c) ==
    /\ caller = c
    /\ pc \in {"recreate", "minimized", "waitevents", "quiesce", "cleanupSwapChain",
               "createSwapChain"}

\* C23 as stated: from its call to its return a recreation called at the
\* acquire leaves framebufferResized as it was.
C23_AcquireRecreationKeepsFlag ==
    [][Recreating("acquire") => framebufferResized' = framebufferResized]_vars

C23_Step ==
    /\ (framebufferResized /\ ~framebufferResized') =>
         /\ pc = "present"
         /\ pc' = "recreate"
         /\ caller' = "present"
    /\ (pc = "acquire" /\ pc' = "recreate") => framebufferResized' = framebufferResized
    /\ (Recreating("acquire") /\ framebufferResized' # framebufferResized) =>
         /\ pc = "waitevents"
         /\ "resize" \in events
         /\ framebufferResized'
    /\ (pc = "present" /\ framebufferResized /\ pc' # pc) =>
         /\ pc' = "recreate"
         /\ caller' = "present"
         /\ ~framebufferResized'
         /\ iter'.recreates = iter.recreates + 1

C23_State ==
    /\ (pc = "recreate" /\ caller = "present") => ~framebufferResized
    /\ (iter.resized /\ iter.present # "none" /\ InDrawFrame) => Recreating("present")

\* C23: framebufferResized is cleared only by the present step, which then
\* calls recreateSwapChain.  The recreation called on a stale acquire never
\* clears it; the flag changes during that recreation only when a resize
\* callback run by glfwWaitEvents sets it.  A flag that is set when the acquire
\* reports out of date is therefore still set after that recreation, and the
\* next present step recreates the swapchain again, whatever the result of the
\* presentation.
C23_FlagClearedOnlyAtPresent == [](C23_State) /\ [][C23_Step]_vars

\* the call before was abandoned on a stale acquire and recreated the
\* swapchain; this call presented with success and recreates it again because
\* the flag was still set
C23_Witness ==
    /\ pc = "recreate"
    /\ caller = "present"
    /\ iter.afterStale
    /\ iter.resized
    /\ iter.present = VK_SUCCESS
    /\ swapChain.generation = 2

\* the presentation requests not yet executed that wait on the render-finished
\* semaphore of slot k
Presenting(k) == { p \in presentQueue : p.info.waitSemaphore = k }

\* C24 as stated: when drawFrame records and submits for a slot, having waited
\* on the slot's fence, no presentation request that waits on the slot's
\* render-finished semaphore is outstanding, so that semaphore is never
\* signaled while it is signaled already or while an earlier presentation
\* still has to wait on it.
C24_PresentConsumedBeforeReuse ==
    /\ pc \in {"record", "submit"} => Presenting(currentFrame) = {}
    /\ \A k \in Slots : renderFinishedSemaphores[k] <= 1
    /\ \A k \in Slots : Cardinality(Presenting(k)) <= 1

\* the presentation requests the current drawFrame call has queued
Presented == { p \in presentQueue : p.id = frames }

C25_State ==
    /\ pc \in {"record", "submit", "present"} =>
         /\ swapChain.live
         /\ swapChain.generation = iter.generation
         /\ imageIndex \in 0 .. (swapChain.images - 1)
         /\ imageIndex \in DOMAIN imageState
         /\ imageState[imageIndex] = "acquired"
         /\ iter.acquire \in {VK_SUCCESS, VK_SUBOPTIMAL_KHR}
         /\ iter.recreates = 0
    /\ pc \in {"submit", "present"} =>
         /\ commandBuffers[currentFrame][1].framebuffer = imageIndex
         /\ commandBuffers[currentFrame][1].generation = iter.generation
    /\ InDrawFrame =>
         \A p \in Presented :
           /\ p.info.swapchain = iter.generation
           /\ p.info.image = commandBuffers[iter.slot][1].framebuffer
           /\ commandBuffers[iter.slot][1].generation = iter.generation
           /\ iter.recreates <= 1

C25_Step ==
    /\ swapChain'.generation # swapChain.generation =>
         pc \in {"start", "createSwapChain"}
    /\ swapChain'.live # swapChain.live =>
         pc \in {"start", "cleanupSwapChain", "createSwapChain", "cleanup"}
    /\ (pc \in {"record", "submit"} /\ pc' # "fatal") => imageIndex' = imageIndex
    /\ (pc = "acquire" /\ pc' = "record") =>
         /\ imageState[imageIndex'] = "free"
         /\ imageState'[imageIndex'] = "acquired"
    /\ (pc = "present" /\ pc' # pc) =>
         presentQueue' = presentQueue \cup
           { [ id |-> frames,
               info |-> [ waitSemaphore |-> currentFrame, image |-> imageIndex,
                          swapchain |-> swapChain.generation ] ] }

\* C25: from the acquire to the present of one drawFrame call the swapchain
\* is the live one the call began with and is not recreated; imageIndex is the
\* image the acquire handed out, an index below the image count of that
\* swapchain; the command buffer is recorded on the framebuffer of that image
\* and generation, and the presentation request names the same image and the
\* same swapchain.
C25_OneImagePerIteration == [](C25_State) /\ [][C25_Step]_vars

\* after a recreation, a frame is presented on an image other than the first
C25_Witness ==
    /\ pc = "present"
    /\ imageIndex # 0
    /\ swapChain.generation = 2
    /\ commandBuffers[currentFrame][1].framebuffer = imageIndex

\* C26 as stated: a swapchain that recreateSwapChain creates has an extent with
\* an area: when createSwapChain queries the surface its extent is not zero in
\* either dimension.
C26_RecreatedExtentHasArea ==
    (swapChain.live /\ swapChain.generation > 1) => ~ZeroArea(swapChain.extent)

\* the objects the creation of object o uses
Needs(o) ==
    CASE o[1] \in {"surface", "device"} -> { Object("instance") }
      [] o[1] = "imageView" -> { <<"swapchain", o[2], 0>> }
      [] o[1] = "framebuffer" -> { Object("renderPass"), <<"imageView", o[2], o[3]>> }
      [] o[1] = "graphicsPipeline" -> { Object("renderPass"), Object("descriptorSetLayout") }
      [] o[1] \in {"singleTimeCommands", "commandBuffers"} -> { Object("commandPool") }
      [] o[1] = "descriptorSets" ->
           { Object("descriptorPool") } \cup { <<"uniformBuffer", 0, k>> : k \in Slots }
      [] OTHER -> {}

\* every object created in t is created while the objects it needs are live
NeedsMet(t) ==
    \A i \in DOMAIN t :
      t[i].op = "create" =>
        Needs(t[i].object) \subseteq Replay(SubSeq(t, 1, i - 1), 1, {}).live

\* what initWindow and initVulkan created and destroyed
SetupTrace == Effects(Succeeded(CallsOf(calls[1]), calls[1].failed))

\* the objects a complete setup leaves live
SetupObjects(images) ==
    { Object(kind) : kind \in {"glfw", "window", "instance", "debugMessenger", "surface",
                               "device", "commandPool", "descriptorPool"} }
    \cup SwapchainObjects(1, images)
    \cup KeptObjects

C27_State ==
    /\ (Len(calls) = 1 /\ frames = 0) =>
         \A t \in { SetupTrace } :
           /\ NeedsMet(t)
           /\ pc = "loop" =>
                /\ \A kind \in {"surface", "device", "imageView", "framebuffer",
                                 "graphicsPipeline", "singleTimeCommands", "commandBuffers",
                                 "descriptorSets"} :
                     \E i \in DOMAIN t : t[i].op = "create" /\ t[i].object[1] = kind
                /\ Replay(t, 1, {}) = [ ok |-> TRUE, live |-> SetupObjects(swapChain.images) ]
                /\ t[Len(t)] = [ op |-> "create",
                                 object |-> <<"inFlightFence", 0, MAX_FRAMES_IN_FLIGHT - 1>> ]
    /\ frames >= 1 => SetupDone /\ calls[1].fn = "setup"
    /\ pc = "start" => frames = 0 /\ calls = << >>

C27_Step ==
    /\ calls # << >> => (calls' # << >> /\ calls'[1] = calls[1])
    /\ frames' # frames => (pc = "loop" /\ pc' = "wait" /\ SetupDone)
    /\ pc = "start" => pc' \in {"start", "loop", "fatal", "undefined"}

\* C27: initWindow and initVulkan create every object while the objects its
\* creation uses exist: the instance before the surface and the device, the
\* swapchain before its image views, the render pass and the image view before
\* each framebuffer, the render pass and the descriptor set layout before the
\* pipeline, the command pool before the command buffers of the uploads and
\* before the frame command buffers, the uniform buffers and the descriptor
\* pool before the descriptor sets; drawFrame is first called after initVulkan
\* has returned, the fences of createSyncObjects being the last objects made.
C27_CreatedAfterDependencies == [](C27_State) /\ [][C27_Step]_vars

\* the first drawFrame call, right after a complete setup
C27_Witness ==
    /\ pc = "wait"
    /\ frames = 1
    /\ Len(calls) = 1
    /\ calls[1].failed = 0
    /\ swapChain.live

\* the objects object o is made from and must not outlive
Parents(o) ==
    ( CASE o[1] = "framebuffer" -> { <<"imageView", o[2], o[3]>> }
        [] o[1] = "imageView" -> { <<"swapchain", o[2], 0>> }
        [] o[1] = "commandBuffers" -> { Object("commandPool") }
        [] o[1] = "descriptorSets" -> { Object("descriptorPool") }
        [] o[1] = "surface" -> { Object("window") }
        [] OTHER -> {} )
    \cup ( IF o[1] \in {"device", "debugMessenger", "surface"} THEN { Object("instance") }
           ELSE IF o[1] \in {"instance", "window", "glfw"} THEN {}
           ELSE { Object("device") } )

\* no object of d is destroyed while an object made from it is live: the live
\* objects are those of owned that d has not reached yet
C28_ChildrenFirst(d, owned, left) ==
    /\ left.ok
    /\ \A all \in { { owned[j] : j \in DOMAIN owned } } :
         \A i \in DOMAIN d :
           \A o \in (all \ { d[j] : j \in 1 .. i }) : d[i] \notin Parents(o)
    /\ \A i \in DOMAIN d : Parents(d[i]) \cap { d[j] : j \in 1 .. i } = {}

\* C28: neither cleanup nor cleanupSwapChain destroys an object while an
\* object made from it is alive: each framebuffer goes before its image view
\* and the image views before the swapchain, everything made from the device
\* before the device, the device, the debug messenger and the surface before
\* the instance, and the surface before the window.
C28_NoParentDestroyedFirst ==
    (Running \/ pc = "exit") /\ calls[Len(calls)].fn \in {"cleanup", "cleanupSwapChain"} =>
      OfLastFunction(C28_ChildrenFirst)

\* cleanup has run after a recreation: the swapchain objects it destroyed are
\* those of the second generation
C28_Witness ==
    /\ pc = "exit"
    /\ calls[Len(calls)].fn = "cleanup"
    /\ swapChain.generation = 2
    /\ Len(calls) >= 6

\* ------------------------------------------------------------------------
\* createSwapChain: what is requested from the surface
\* ------------------------------------------------------------------------
\* the special width of currentExtent, std::numeric_limits<uint32_t>::max();
\* here the largest integer the checker holds, which no real extent equals
UINT32_MAX == 2147483647

\* largest image count a surface reports
MaxImageCount == 3

VK_FORMAT_B8G8R8A8_SRGB == "VK_FORMAT_B8G8R8A8_SRGB"
VK_FORMAT_B8G8R8A8_UNORM == "VK_FORMAT_B8G8R8A8_UNORM"
VK_COLOR_SPACE_SRGB_NONLINEAR_KHR == "VK_COLOR_SPACE_SRGB_NONLINEAR_KHR"
VK_PRESENT_MODE_MAILBOX_KHR == "VK_PRESENT_MODE_MAILBOX_KHR"
VK_PRESENT_MODE_FIFO_KHR == "VK_PRESENT_MODE_FIFO_KHR"

\* SwapChainSupportDetails as querySwapChainSupport fills it, together with
\* the framebuffer size glfw reports; a surface with a maximum image count
\* reports one that is not below its minimum
SwapChainSupportDetails ==
    LET unorm == [ format |-> VK_FORMAT_B8G8R8A8_UNORM,
                   colorSpace |-> VK_COLOR_SPACE_SRGB_NONLINEAR_KHR ]
        srgb == [ format |-> VK_FORMAT_B8G8R8A8_SRGB,
                  colorSpace |-> VK_COLOR_SPACE_SRGB_NONLINEAR_KHR ]
    IN  { [ kind |-> "surface",
            capabilities |->
                [ minImageCount |-> lo, maxImageCount |-> hi, currentExtent |-> current,
                  minImageExtent |-> <<1, 1>>, maxImageExtent |-> <<WIDTH, HEIGHT>> ],
            formats |-> formats,
            presentModes |-> presentModes,
            framebuffer |-> framebuffer ] :
          lo \in 1 .. MaxImageCount,
          hi \in 0 .. MaxImageCount,
          current \in { <<WIDTH, HEIGHT>>, <<UINT32_MAX, UINT32_MAX>> },
          formats \in { << unorm >>, << unorm, srgb >>, << srgb, unorm >> },
          presentModes \in { << VK_PRESENT_MODE_FIFO_KHR >>,
                             << VK_PRESENT_MODE_FIFO_KHR, VK_PRESENT_MODE_MAILBOX_KHR >> },
          framebuffer \in { <<WIDTH, HEIGHT>>, <<0, 0>>, <<2 * WIDTH, HEIGHT>> } }

\* chooseSwapSurfaceFormat: the first sRGB format, else the first format
chooseSwapSurfaceFormat(availableFormats) ==
    LET wanted == { i \in DOMAIN availableFormats :
                      /\ availableFormats[i].format = VK_FORMAT_B8G8R8A8_SRGB
                      /\ availableFormats[i].colorSpace = VK_COLOR_SPACE_SRGB_NONLINEAR_KHR }
    IN  IF wanted # {}
        THEN availableFormats[CHOOSE i \in wanted : \A j \in wanted : i <= j]
        ELSE availableFormats[1]

\* chooseSwapPresentMode: mailbox when offered, else fifo
chooseSwapPresentMode(availablePresentModes) ==
    IF \E i \in DOMAIN availablePresentModes :
           availablePresentModes[i] = VK_PRESENT_MODE_MAILBOX_KHR
    THEN VK_PRESENT_MODE_MAILBOX_KHR
    ELSE VK_PRESENT_MODE_FIFO_KHR

\* std::clamp
clamp(v, lo, hi) == IF v < lo THEN lo ELSE IF hi < v THEN hi ELSE v

\* chooseSwapExtent: the surface's current extent unless it is the special
\* value, else the framebuffer size clamped to the surface's limits
chooseSwapExtent(capabilities, framebuffer) ==
    IF capabilities.currentExtent[1] # UINT32_MAX
    THEN capabilities.currentExtent
    ELSE << clamp(framebuffer[1], capabilities.minImageExtent[1],
                  capabilities.maxImageExtent[1]),
            clamp(framebuffer[2], capabilities.minImageExtent[2],
                  capabilities.maxImageExtent[2]) >>

\* createSwapChain: the create info it fills and the members it stores
createSwapChain(details) ==
    LET surfaceFormat == chooseSwapSurfaceFormat(details.formats)
        presentMode == chooseSwapPresentMode(details.presentModes)
        extent == chooseSwapExtent(details.capabilities, details.framebuffer)
        imageCount == ImageCount(details.capabilities)
    IN  [ kind |-> "swapchain",
          createInfo |-> [ minImageCount |-> imageCount,
                           imageFormat |-> surfaceFormat.format,
                           imageColorSpace |-> surfaceFormat.colorSpace,
                           imageExtent |-> extent,
                           presentMode |-> presentMode ],
          swapChainImageFormat |-> surfaceFormat.format,
          swapChainExtent |-> extent ]

\* the variables of the running application
programVars ==
    << ctlVars, swapVars, slotVars, syncVars, queueVars, envVars, histVars, calls,
       mainVars >>

SwapChainInit ==
    /\ Constructed
    /\ support \in { d \in SwapChainSupportDetails :
                       \/ d.capabilities.maxImageCount = 0
                       \/ d.capabilities.maxImageCount >= d.capabilities.minImageCount }
    /\ choice = NoChoice

CreateSwapChainInfo ==
    /\ support.kind = "surface"
    /\ choice = NoChoice
    /\ choice' = createSwapChain(support)
    /\ UNCHANGED << support, programVars >>

SwapChainNext == CreateSwapChainInfo

SwapChainSpec == SwapChainInit /\ [][SwapChainNext]_vars

\* C29: a swapchain is requested with minImageCount + 1 images, reduced to
\* maxImageCount exactly when that maximum is non-zero and exceeded; the
\* request is never below the minimum nor above an existing maximum, and the
\* stored format and extent are the ones put in the request.
C29_RequestedImageCount ==
    choice.kind = "swapchain" =>
        LET lo == support.capabilities.minImageCount
            hi == support.capabilities.maxImageCount
            requested == choice.createInfo.minImageCount
            reduced == hi # 0 /\ lo + 1 > hi
        IN  /\ reduced => requested = hi
            /\ ~reduced => requested = lo + 1
            /\ requested >= lo
            /\ hi # 0 => requested <= hi
            /\ choice.swapChainImageFormat = choice.createInfo.imageFormat
            /\ choice.swapChainImageFormat = chooseSwapSurfaceFormat(support.formats).format
            /\ choice.swapChainExtent = choice.createInfo.imageExtent
            /\ choice.swapChainExtent =
                   chooseSwapExtent(support.capabilities, support.framebuffer)

\* a request that was reduced to the surface's maximum
C29_Witness ==
    /\ choice.kind = "swapchain"
    /\ support.capabilities.maxImageCount = support.capabilities.minImageCount
    /\ choice.createInfo.minImageCount = support.capabilities.maxImageCount
    /\ choice.swapChainExtent = <<WIDTH, HEIGHT>>
    /\ support.framebuffer = <<2 * WIDTH, HEIGHT>>
    /\ support.capabilities.currentExtent[1] = UINT32_MAX

\* ------------------------------------------------------------------------
\* pickPhysicalDevice: which device is selected
\* ------------------------------------------------------------------------
\* largest number of devices the instance enumerates
MaxDevices == 2

VK_KHR_SWAPCHAIN_EXTENSION_NAME == "VK_KHR_swapchain"
deviceExtensions == { VK_KHR_SWAPCHAIN_EXTENSION_NAME }

VK_PHYSICAL_DEVICE_TYPE_DISCRETE_GPU == "VK_PHYSICAL_DEVICE_TYPE_DISCRETE_GPU"
VK_PHYSICAL_DEVICE_TYPE_INTEGRATED_GPU == "VK_PHYSICAL_DEVICE_TYPE_INTEGRATED_GPU"

\* what a device can lack
Defects ==
    { "none", "geometryShader", "extension", "formats", "presentModes",
      "graphicsFamily", "presentFamily" }

\* the properties, features, extensions, surface support and queue families
\* that the Vulkan queries report for one device
PhysicalDevices ==
    { [ deviceType |-> deviceType,
        maxImageDimension2D |-> dimension,
        geometryShader |-> (defect # "geometryShader"),
        extensions |-> IF defect = "extension"
                       THEN { "VK_KHR_maintenance1" }
                       ELSE { VK_KHR_SWAPCHAIN_EXTENSION_NAME, "VK_KHR_maintenance1" },
        formats |-> IF defect = "formats" THEN 0 ELSE 2,
        presentModes |-> IF defect = "presentModes" THEN 0 ELSE 1,
        queueFamilies |->
            IF defect = "graphicsFamily"
            THEN << [ graphics |-> FALSE, present |-> TRUE ] >>
            ELSE IF defect = "presentFamily"
            THEN << [ graphics |-> TRUE, present |-> FALSE ],
                    [ graphics |-> TRUE, present |-> FALSE ] >>
            ELSE << [ graphics |-> TRUE, present |-> FALSE ],
                    [ graphics |-> FALSE, present |-> TRUE ],
                    [ graphics |-> TRUE, present |-> TRUE ] >> ] :
      deviceType \in { VK_PHYSICAL_DEVICE_TYPE_DISCRETE_GPU,
                       VK_PHYSICAL_DEVICE_TYPE_INTEGRATED_GPU },
      dimension \in { 4096, 16384 },
      defect \in Defects }

\* std::optional without a value
NoFamily == -1

\* QueueFamilyIndices::isComplete
isComplete(indices) ==
    indices.graphicsFamily # NoFamily /\ indices.presentFamily # NoFamily

\* the loop of findQueueFamilies from family i on, left once both are found
RECURSIVE findQueueFamiliesFrom(_, _, _)
findQueueFamiliesFrom(queueFamilies, i, indices) ==
    IF i > Len(queueFamilies)
    THEN indices
    ELSE LET found ==
                 [ graphicsFamily |-> IF queueFamilies[i].graphics
                                      THEN i - 1 ELSE indices.graphicsFamily,
                   presentFamily |-> IF queueFamilies[i].present
                                     THEN i - 1 ELSE indices.presentFamily ]
         IN  IF isComplete(found)
             THEN found
             ELSE findQueueFamiliesFrom(queueFamilies, i + 1, found)

findQueueFamilies(device) ==
    findQueueFamiliesFrom(device.queueFamilies, 1,
                          [ graphicsFamily |-> NoFamily, presentFamily |-> NoFamily ])

\* checkDeviceExtensionSupport: every required name is among the available
checkDeviceExtensionSupport(device) ==
    deviceExtensions \ device.extensions = {}

\* a rating that leaves out the queue family test
rateDeviceSuitability_AnyQueues(device) ==
    LET score == (IF device.deviceType = VK_PHYSICAL_DEVICE_TYPE_DISCRETE_GPU
                  THEN 1000 ELSE 0) + device.maxImageDimension2D
    IN  IF ~device.geometryShader THEN 0
        ELSE IF ~checkDeviceExtensionSupport(device) THEN 0
        ELSE IF ~(device.formats # 0 /\ device.presentModes # 0) THEN 0
        ELSE score

rateDeviceSuitability(device) ==
    LET score == (IF device.deviceType = VK_PHYSICAL_DEVICE_TYPE_DISCRETE_GPU
                  THEN 1000 ELSE 0) + device.maxImageDimension2D
        swapChainAdequate == device.formats # 0 /\ device.presentModes # 0
    IN  IF ~device.geometryShader THEN 0
        ELSE IF ~checkDeviceExtensionSupport(device) THEN 0
        ELSE IF ~swapChainAdequate THEN 0
        ELSE IF ~isComplete(findQueueFamilies(device)) THEN 0
        ELSE score

VK_NULL_HANDLE == 0

\* pickPhysicalDevice: the last element of the multimap of scores, which is
\* the device rated highest and, among equals, enumerated last
pickPhysicalDevice(devices) ==
    IF Len(devices) = 0
    THEN [ kind |-> "device", error |-> "failed to find GPUs with Vulkan support!",
           physicalDevice |-> VK_NULL_HANDLE ]
    ELSE LET rbegin ==
                 CHOOSE i \in DOMAIN devices :
                     \A j \in DOMAIN devices :
                         \/ rateDeviceSuitability(devices[j]) < rateDeviceSuitability(devices[i])
                         \/ /\ rateDeviceSuitability(devices[j]) = rateDeviceSuitability(devices[i])
                            /\ j <= i
         IN  IF rateDeviceSuitability(devices[rbegin]) > 0
             THEN [ kind |-> "device", error |-> "none", physicalDevice |-> rbegin ]
             ELSE [ kind |-> "device", error |-> "failed to find a suitable GPU!",
                    physicalDevice |-> VK_NULL_HANDLE ]

DeviceInit ==
    /\ Constructed
    /\ support \in { [ kind |-> "instance", devices |-> devices ] :
                     devices \in UNION { [1 .. n -> PhysicalDevices] : n \in 0 .. MaxDevices } }
    /\ choice = NoChoice

PickPhysicalDevice ==
    /\ support.kind = "instance"
    /\ choice = NoChoice
    /\ choice' = pickPhysicalDevice(support.devices)
    /\ UNCHANGED << support, programVars >>

DeviceNext == PickPhysicalDevice

DeviceSpec == DeviceInit /\ [][DeviceNext]_vars

\* a device with everything the application needs
Suitable(device) ==
    /\ device.geometryShader
    /\ VK_KHR_SWAPCHAIN_EXTENSION_NAME \in device.extensions
    /\ device.formats >= 1
    /\ device.presentModes >= 1
    /\ \E i \in DOMAIN device.queueFamilies : device.queueFamilies[i].graphics
    /\ \E i \in DOMAIN device.queueFamilies : device.queueFamilies[i].present

\* C30: the selected device has the highest rating of all enumerated devices;
\* selection fails when there is no device or when the highest rating is not
\* above 0; a device lacking the geometry shader, a required extension, a
\* surface format or present mode, or a graphics or present queue family is
\* rated 0 and is never selected.
C30_BestSuitableDeviceSelected ==
    choice.kind = "device" =>
        LET devices == support.devices
            best(i) == \A j \in DOMAIN devices :
                           rateDeviceSuitability(devices[j]) <= rateDeviceSuitability(devices[i])
        IN  /\ (choice.error = "failed to find GPUs with Vulkan support!")
                   <=> (Len(devices) = 0)
            /\ (choice.error = "failed to find a suitable GPU!")
                   <=> /\ Len(devices) > 0
                       /\ \A i \in DOMAIN devices : rateDeviceSuitability(devices[i]) <= 0
            /\ choice.error = "none" =>
                   /\ choice.physicalDevice \in DOMAIN devices
                   /\ best(choice.physicalDevice)
                   /\ rateDeviceSuitability(devices[choice.physicalDevice]) > 0
            /\ choice.error # "none" => choice.physicalDevice = VK_NULL_HANDLE
            /\ \A i \in DOMAIN devices :
                   ~Suitable(devices[i]) =>
                       /\ rateDeviceSuitability(devices[i]) = 0
                       /\ choice.physicalDevice # i

\* an unsuitable discrete device enumerated after a suitable integrated one,
\* which is the one selected
C30_Witness ==
    /\ choice.kind = "device"
    /\ Len(support.devices) = 2
    /\ Suitable(support.devices[1])
    /\ support.devices[1].deviceType = VK_PHYSICAL_DEVICE_TYPE_INTEGRATED_GPU
    /\ ~Suitable(support.devices[2])
    /\ support.devices[2].deviceType = VK_PHYSICAL_DEVICE_TYPE_DISCRETE_GPU
    /\ support.devices[2].queueFamilies = << [ graphics |-> FALSE, present |-> TRUE ] >>
    /\ choice.physicalDevice = 1

====
